---- MODULE Spec2Model ----
(***************************************************************************)
(* Maegashira reverse proxy: the routing-table store and its propagation   *)
(* from the primary process to the workers, the route matcher, and the     *)
(* per-request handler of a worker with its post-transaction queue.        *)
(*                                                                         *)
(* JavaScript strings are sequences of one-character strings.  An optional *)
(* value (undefined or a value v) is the sequence << >> or << v >>.        *)
(***************************************************************************)
EXTENDS Integers, Sequences, FiniteSets, TLC

(***************************************************************************)
(* Bounds of the model.                                                    *)
(***************************************************************************)
MaxSetCalls == 2
MaxRequests == 2
MaxExitEvents == 3
MaxClock == 1

(***************************************************************************)
(* Strings.                                                                *)
(***************************************************************************)
None == << >>
Some(v) == << v >>

LowerLetters == {"a", "c", "e", "g", "h", "i", "l", "m", "o", "p", "s", "t", "v", "x"}
UpperLetters == {"C", "E", "M", "O"}
Digits == {"0", "1", "9"}
AlNum == LowerLetters \cup UpperLetters \cup Digits

\* String.prototype.toLowerCase on one character
LowerChar(c) ==
  CASE c = "C" -> "c"
    [] c = "E" -> "e"
    [] c = "M" -> "m"
    [] c = "O" -> "o"
    [] OTHER -> c

toLowerCase(s) == [i \in 1..Len(s) |-> LowerChar(s[i])]

\* String.prototype.startsWith
startsWith(s, p) == Len(p) <= Len(s) /\ SubSeq(s, 1, Len(p)) = p

\* the positions at which p occurs in s
Occurrences(s, p) ==
  {i \in 1..(Len(s) - Len(p) + 1) : SubSeq(s, i, i + Len(p) - 1) = p}

Min(S) == CHOOSE x \in S : \A y \in S : x <= y

\* String.prototype.replace(p, '') with a string pattern: the first occurrence
\* of p is removed, and s is returned as it is when p does not occur in it
replaceFirst(s, p) ==
  IF Occurrences(s, p) = {} THEN s
  ELSE LET i == Min(Occurrences(s, p))
       IN SubSeq(s, 1, i - 1) \o SubSeq(s, i + Len(p), Len(s))

\* the position of the first c in s, 0 when there is none
IndexOf(s, c) ==
  IF \E i \in 1..Len(s) : s[i] = c THEN Min({i \in 1..Len(s) : s[i] = c}) ELSE 0

RECURSIVE DecimalValue(_)
DecimalValue(ds) ==
  IF ds = << >> THEN 0
  ELSE 10 * DecimalValue(SubSeq(ds, 1, Len(ds) - 1))
       + (CASE ds[Len(ds)] = "0" -> 0 [] ds[Len(ds)] = "1" -> 1 [] OTHER -> 9)

(***************************************************************************)
(* URLs.  The model covers URLs of the form scheme "://" host [":" port]   *)
(* path: the ajv format "uri" (RFC 3986 syntax) accepts any run of digits  *)
(* as a port and an empty host, the URL class (WHATWG) rejects a port      *)
(* above 65535 and an empty host.                                          *)
(***************************************************************************)
SchemeOf(u) == SubSeq(u, 1, IndexOf(u, ":") - 1)
AfterScheme(u) == SubSeq(u, IndexOf(u, ":") + 1, Len(u))
HasAuthority(u) == IndexOf(u, ":") > 0 /\ startsWith(AfterScheme(u), <<"/", "/">>)
AuthorityAndPath(u) == SubSeq(AfterScheme(u), 3, Len(AfterScheme(u)))
AuthorityOf(u) ==
  LET ap == AuthorityAndPath(u)
  IN IF IndexOf(ap, "/") = 0 THEN ap ELSE SubSeq(ap, 1, IndexOf(ap, "/") - 1)
UrlPathOf(u) ==
  LET ap == AuthorityAndPath(u)
  IN IF IndexOf(ap, "/") = 0 THEN << >> ELSE SubSeq(ap, IndexOf(ap, "/"), Len(ap))
UrlHostnameOf(u) ==
  LET a == AuthorityOf(u)
  IN IF IndexOf(a, ":") = 0 THEN a ELSE SubSeq(a, 1, IndexOf(a, ":") - 1)
UrlPortOf(u) ==
  LET a == AuthorityOf(u)
  IN IF IndexOf(a, ":") = 0 THEN << >> ELSE SubSeq(a, IndexOf(a, ":") + 1, Len(a))

\* ajv-formats "uri"
UriFormat(u) ==
  /\ HasAuthority(u)
  /\ Len(SchemeOf(u)) >= 1
  /\ SchemeOf(u)[1] \in LowerLetters \cup UpperLetters
  /\ \A i \in 1..Len(SchemeOf(u)) : SchemeOf(u)[i] \in AlNum \cup {"+", "-", "."}
  /\ \A i \in 1..Len(UrlHostnameOf(u)) : UrlHostnameOf(u)[i] \in AlNum \cup {"-", "."}
  /\ \A i \in 1..Len(UrlPortOf(u)) : UrlPortOf(u)[i] \in Digits
  /\ \A i \in 1..Len(UrlPathOf(u)) : UrlPathOf(u)[i] \in AlNum \cup {"-", ".", "/"}

\* new URL(u) does not throw
UrlParses(u) ==
  /\ UriFormat(u)
  /\ Len(UrlHostnameOf(u)) >= 1
  /\ DecimalValue(UrlPortOf(u)) <= 65535

\* ajv-formats "hostname": labels of letters, digits and inner hyphens, any
\* letter case, separated by dots (the length limits of the format, 253 and
\* 63, are beyond the hostnames of the model)
HostnameFormat(h) ==
  /\ Len(h) >= 1
  /\ \A i \in 1..Len(h) : h[i] \in AlNum \cup {"-", "."}
  /\ h[1] \in AlNum
  /\ h[Len(h)] \in AlNum \cup {"."}
  /\ \A i \in 2..Len(h) :
       h[i] = "." => /\ h[i - 1] \in AlNum
                     /\ (i = Len(h) \/ h[i + 1] \in AlNum)

(***************************************************************************)
(* The routing-table schema.  A route or a target is a record holding the  *)
(* properties it has.                                                      *)
(***************************************************************************)
Has(r, f) == f \in DOMAIN r

ForwardTargetSchema(t) ==
  /\ DOMAIN t \subseteq {"type", "url"}
  /\ {"type", "url"} \subseteq DOMAIN t
  /\ t.type = "forward"
  /\ UriFormat(t.url)

StaticTargetSchema(t) ==
  /\ DOMAIN t \subseteq {"type", "directory", "index"}
  /\ {"type", "directory"} \subseteq DOMAIN t
  /\ t.type = "static"

\* oneOf: exactly one of the two target schemas
TargetSchema(t) == ForwardTargetSchema(t) # StaticTargetSchema(t)

MiddlewaresSchema(m) == DOMAIN m \subseteq {"preProcessing", "postProcessing"}

LoadBalancingStrategySchema(l) == DOMAIN l = {"type"} /\ l.type = "random"

AuthenticationStrategySchema(a) ==
  \/ DOMAIN a = {"type"} /\ a.type = "anonymous"
  \/ /\ DOMAIN a \subseteq {"type", "username", "password", "realm"}
     /\ {"type", "username", "password"} \subseteq DOMAIN a
     /\ a.type = "basic"

RouteSchema(r) ==
  /\ DOMAIN r \subseteq {"hostname", "path", "timeout", "middlewares",
                         "loadBalancingStrategy", "authenticationStrategy",
                         "cacheStrategy", "targets"}
  /\ {"hostname", "path", "targets"} \subseteq DOMAIN r
  /\ HostnameFormat(r.hostname)
  /\ Has(r, "middlewares") => MiddlewaresSchema(r.middlewares)
  /\ Has(r, "loadBalancingStrategy") => LoadBalancingStrategySchema(r.loadBalancingStrategy)
  /\ Has(r, "authenticationStrategy") => AuthenticationStrategySchema(r.authenticationStrategy)
  /\ Len(r.targets) >= 1
  /\ \A i \in 1..Len(r.targets) : TargetSchema(r.targets[i])

\* validateRoutingTableSchema = ajv.compile(routingTableSchema)
validateRoutingTableSchema(table) ==
  \A i \in 1..Len(table) : RouteSchema(table[i])

(***************************************************************************)
(* The strings and the routing tables of the model.                        *)
(***************************************************************************)
Localhost == <<"l", "o", "c", "a", "l", "h", "o", "s", "t">>
ExampleCom == <<"e", "x", "a", "m", "p", "l", "e", ".", "c", "o", "m">>
ExampleComMixed == <<"E", "x", "a", "m", "p", "l", "e", ".", "C", "O", "M">>
ApiPath == <<"/", "a", "p", "i">>
OriginUrl == <<"h", "t", "t", "p", ":", "/", "/", "g", ".", "c", "o", "m">>
BadPortUrl == OriginUrl \o <<":", "9", "9", "9", "9", "9">>
StaticDirectory == <<".", "/", "s">>

ForwardTarget(u) == [type |-> "forward", url |-> u]
StaticTarget(d) == [type |-> "static", directory |-> d]

\* valid: one forward route for every path of localhost
ForwardTable ==
  << [hostname |-> Localhost, path |-> << >>, targets |-> <<ForwardTarget(OriginUrl)>>] >>
\* valid: an /api forward route before a static route
ApiTable ==
  << [hostname |-> Localhost, path |-> ApiPath, targets |-> <<ForwardTarget(OriginUrl)>>],
     [hostname |-> Localhost, path |-> << >>, targets |-> <<StaticTarget(StaticDirectory)>>] >>
\* invalid: a route without hostname, after a valid route
NoHostnameTable ==
  ForwardTable \o << [path |-> << >>, targets |-> <<StaticTarget(StaticDirectory)>>] >>
\* valid for the schema, with a target url that new URL() rejects
BadPortTable ==
  << [hostname |-> Localhost, path |-> << >>, targets |-> <<ForwardTarget(BadPortUrl)>>] >>

\* the tables given to startPrimaryProcess and posted to the management API
CandidateTables == {<< >>, ForwardTable, NoHostnameTable, BadPortTable}

\* the workers forked by startPrimaryProcess, and those its exit handler forks
InitialWorkers == {1, 2}
RestartedWorkers == {3}

(***************************************************************************)
(* The cluster: the primary process, its routing-table store, the workers  *)
(* and the IPC channels between them.                                      *)
(***************************************************************************)
VARIABLES
  options,              \* the options of startPrimaryProcess: routingTable, serviceDiscovery
  primaryState,         \* "init", "started", "failed" (startPrimaryProcess threw), "exited"
  receivedExitSignals,  \* primary-process.js: receivedExitSignals
  routingTableStore,    \* routing-table.js: _routingTable, None while undefined
  workerState,          \* per worker: "absent", "forked", "started", "stopped", "dead"
  workerHandlers,       \* per worker: the primary attached its 'message' and 'exit' handlers
  workerRoutingTable,   \* worker-process.js: routingTable of each worker
  toWorker,             \* per worker: messages sent by the primary, not yet handled
  toPrimary,            \* per worker: messages sent by the worker, not yet handled
  setCalls,             \* number of setRoutingTable calls so far
  lastSet,              \* the last setRoutingTable call: its argument and whether it threw
  lastSuccessfulSet,    \* the argument of the last setRoutingTable call that returned
  setLog                \* the arguments of the setRoutingTable calls that returned, in order

\* the management API, the queues and the shutdown of the primary
VARIABLES
  apiServing,           \* api.js: apiServer is serving requests
  queuesState,          \* queues.js: postTransactionQueue is "none" (undefined), "open", "closed"
  stopPc,               \* stopPrimaryProcess: "idle", "closing" (awaiting stopQueues), "done", "failed"
  exitMessage,          \* gracefulExitHandler: the exitMessage of the first exit signal
  apiResponse,          \* apiRequestHandler: the status and the body of its last response
  exitTimers,           \* gracefulExitHandler: the number of exit timers set
  stopCalls,            \* gracefulExitHandler: the number of its calls of stopPrimaryProcess
  exitEvents,           \* the number of exit events that gracefulExitHandler has handled
  exitCode              \* process.exitCode when the primary has exited, None before

serviceVars ==
  <<apiServing, queuesState, stopPc, exitMessage, apiResponse, exitTimers, stopCalls,
    exitEvents, exitCode>>

clusterVars ==
  <<options, primaryState, receivedExitSignals, routingTableStore, workerState,
    workerHandlers, workerRoutingTable, toWorker, toPrimary, setCalls, lastSet,
    lastSuccessfulSet, setLog, serviceVars>>

WorkerIds == InitialWorkers \cup RestartedWorkers

\* cluster.workers: the workers forked and not dead
ClusterWorkers == {w \in WorkerIds : workerState[w] \in {"forked", "started", "stopped"}}

\* getRoutingTable: _routingTable || []
getRoutingTable == IF routingTableStore = None THEN << >> ELSE routingTableStore[1]

RoutingTableMessage(optTable) == [type |-> "routingtable", routingTable |-> optTable]
ShutdownMessage == [type |-> "shutdown"]

\* sendIpcMessageToWorkers, and the loop of propagateRoutingTableToWorkers:
\* worker.send(message) for each of `workers`
sendIpcMessageToWorkers(channels, workers, message) ==
  [w \in WorkerIds |-> IF w \in workers THEN Append(channels[w], message) ELSE channels[w]]

\* propagateRoutingTableToWorkers, with _routingTable holding `store`
propagateRoutingTableToWorkers(channels, workers, store) ==
  sendIpcMessageToWorkers(channels, workers,
    RoutingTableMessage(Some(IF store = None THEN << >> ELSE store[1])))

\* prefetchDns throws: new URL(target.url) throws for a forward target
prefetchDnsThrows(table) ==
  \E i \in 1..Len(table) : \E j \in 1..Len(table[i].targets) :
    LET target == table[i].targets[j]
    IN target.type = "forward" /\ Has(target, "url") /\ ~UrlParses(target.url)

\* validateRoutingTableSchema and prefetchDnsThrows tabulated over the tables of
\* the model, so that each is evaluated once per table
schemaValid == [t \in CandidateTables |-> validateRoutingTableSchema(t)]
prefetchThrows == [t \in CandidateTables |-> prefetchDnsThrows(t)]

\* setRoutingTable(table) throws
setRoutingTableThrows(table) ==
  \/ ~schemaValid[table]
  \/ prefetchThrows[table]

\* setRoutingTable assigning _routingTable before it validates
setRoutingTableStoreUnchecked(store, table) == Some(table)

\* setRoutingTable(table): _routingTable after the call
setRoutingTableStore(store, table) ==
  IF schemaValid[table] THEN Some(table) ELSE store

\* a setRoutingTable that propagates a valid table twice
setRoutingTableChannelsTwice(channels, workers, store, table) ==
  IF schemaValid[table]
  THEN propagateRoutingTableToWorkers(
         propagateRoutingTableToWorkers(channels, workers, Some(table)), workers, Some(table))
  ELSE channels

\* setRoutingTable(table): the channels to the workers after the call
setRoutingTableChannels(channels, workers, store, table) ==
  IF schemaValid[table]
  THEN propagateRoutingTableToWorkers(channels, workers, Some(table))
  ELSE channels

\* a call of setRoutingTable(table) with cluster.workers = workers
setRoutingTable(table, workers) ==
  /\ routingTableStore' = setRoutingTableStore(routingTableStore, table)
  /\ toWorker' = setRoutingTableChannels(toWorker, workers, routingTableStore, table)
  /\ setCalls' = setCalls + 1
  /\ lastSet' = Some([table |-> table, threw |-> setRoutingTableThrows(table)])
  /\ lastSuccessfulSet' =
       IF setRoutingTableThrows(table) THEN lastSuccessfulSet ELSE Some(table)
  /\ setLog' = IF setRoutingTableThrows(table) THEN setLog ELSE Append(setLog, table)

\* the route matcher of one worker, for one request
VARIABLES
  routingTable,   \* worker-process.js: routingTable of the worker
  request,        \* the request: the host of its URL as the client wrote it, its path, its query
  resolvePc,      \* "start", "resolved", "forwarded"
  route,          \* requestHandler: route, None while null
  target,         \* requestHandler: target
  upstreamUrl,    \* requestHandler: targetUrl
  staticFile      \* requestHandler: the path given to file() for staticFile

matcherVars == <<routingTable, request, resolvePc, route, target, upstreamUrl, staticFile>>

\* the request handler of one worker
VARIABLES
  now,            \* the clock of the worker, in milliseconds (Date.getTime())
  reqPc,          \* per request: "new", "preprocessing", "fetching", "reading", "done"
  reqInput,       \* per request: its path, its Authorization header, whether its client IP is known
  reqRoute,       \* per request: route
  reqTarget,      \* per request: target
  reqMiddleware,  \* per request: the index in route.middlewares.preProcessing of the handler awaited
  transaction,    \* per request: the transaction record
  response,       \* per request: the status of `response`
  invoked,        \* per request: the keys of the middleware handlers invoked, in order
  invokedAtCancel,\* per request: None, or the number of handlers invoked when one cancelled
  dispatched,     \* per request: "none", "forward" (fetch called), "static" (file read)
  clientStatus,   \* per request: the status of the response the client received
  jobs,           \* the post-transaction queue: the jobs added, with their jobId
  reqHeaders,     \* per request: the Authorization header of `request`, None when it has none
  handlerInput,   \* per request: the headers and the body of the initialState of the handler awaited
  handlerOutput,  \* per request: the headers and the body of the last state a handler returned
  wwwAuthenticate,\* per request: the realm of the WWW-Authenticate header of the response
  authEvaluated,  \* per request: the headers and the strategy basicAuthenticationMiddleware was called with
  deadline,       \* per request: the delay of the abort timer of its fetch
  reqTable,       \* per request: routingTable when matchRoute was called
  phases          \* per request: the phases of the handler so far, in order

handlerVars ==
  <<reqHeaders, handlerInput, handlerOutput, wwwAuthenticate, authEvaluated, deadline,
    reqTable, phases>>

requestVars ==
  <<now, reqPc, reqInput, reqRoute, reqTarget, reqMiddleware, transaction, response,
    invoked, invokedAtCancel, dispatched, clientStatus, jobs, handlerVars>>

ClusterInit ==
  /\ options \in [routingTable : {None} \cup {Some(t) : t \in CandidateTables},
                  serviceDiscovery : {"none", "docker"}]
  /\ primaryState = "init"
  /\ receivedExitSignals = 0
  /\ routingTableStore = None
  /\ workerState = [w \in WorkerIds |-> "absent"]
  /\ workerHandlers = [w \in WorkerIds |-> FALSE]
  /\ workerRoutingTable = [w \in WorkerIds |-> << >>]
  /\ toWorker = [w \in WorkerIds |-> << >>]
  /\ toPrimary = [w \in WorkerIds |-> << >>]
  /\ setCalls = 0
  /\ lastSet = None
  /\ lastSuccessfulSet = None
  /\ setLog = << >>
  /\ apiServing = FALSE
  /\ queuesState = "none"
  /\ stopPc = "idle"
  /\ exitMessage = None
  /\ apiResponse = None
  /\ exitTimers = 0
  /\ stopCalls = 0
  /\ exitEvents = 0
  /\ exitCode = None

\* startPrimaryProcess: the management API is started, the workers are forked
\* with their handlers, the initial routing table is set, the queues are
\* initialized; setRoutingTable throwing makes startPrimaryProcess throw, with
\* the API started, the workers forked and the queues not initialized
startPrimaryProcess ==
  /\ UNCHANGED <<matcherVars, requestVars>>
  /\ primaryState = "init"
  /\ apiServing' = TRUE
  /\ queuesState' = IF options.routingTable # None
                       /\ setRoutingTableThrows(options.routingTable[1])
                    THEN "none" ELSE "open"
  /\ UNCHANGED <<stopPc, exitMessage, apiResponse, exitTimers, stopCalls, exitEvents, exitCode>>
  /\ workerState' = [w \in WorkerIds |-> IF w \in InitialWorkers THEN "forked" ELSE "absent"]
  /\ workerHandlers' = [w \in WorkerIds |-> w \in InitialWorkers]
  /\ IF options.routingTable # None
     THEN /\ setRoutingTable(options.routingTable[1], InitialWorkers)
          /\ primaryState' = IF setRoutingTableThrows(options.routingTable[1])
                             THEN "failed" ELSE "started"
     ELSE /\ primaryState' = "started"
          /\ UNCHANGED <<routingTableStore, toWorker, setCalls, lastSet, lastSuccessfulSet, setLog>>
  /\ UNCHANGED <<options, receivedExitSignals, workerRoutingTable, toPrimary>>

\* startWorkerProcess: the worker listens to the primary and requests the
\* routing table
startWorkerProcess(w) ==
  /\ UNCHANGED <<matcherVars, requestVars, serviceVars>>
  /\ workerState[w] = "forked"
  /\ workerState' = [workerState EXCEPT ![w] = "started"]
  /\ toPrimary' = [toPrimary EXCEPT ![w] = Append(@, [type |-> "routingtable"])]
  /\ UNCHANGED <<options, primaryState, receivedExitSignals, routingTableStore,
                 workerHandlers, workerRoutingTable, toWorker, setCalls, lastSet,
                 lastSuccessfulSet, setLog>>

\* workerProcessMessageHandler: the primary answers a worker's 'routingtable'
\* message with the routingTable option of startPrimaryProcess; a worker forked by the exit handler has no such handler and its
\* message is dropped
workerProcessMessageHandler(w) ==
  /\ UNCHANGED <<matcherVars, requestVars, serviceVars>>
  /\ primaryState # "exited"
  /\ toPrimary[w] # << >>
  /\ toPrimary' = [toPrimary EXCEPT ![w] = Tail(@)]
  /\ toWorker' = IF workerHandlers[w] /\ w \in ClusterWorkers
                 THEN [toWorker EXCEPT ![w] = Append(@, RoutingTableMessage(options.routingTable))]
                 ELSE toWorker
  /\ UNCHANGED <<options, primaryState, receivedExitSignals, routingTableStore,
                 workerState, workerHandlers, workerRoutingTable, setCalls, lastSet,
                 lastSuccessfulSet, setLog>>

\* a handler of 'routingtable' messages that keeps the table of the worker
routingTableKept(current, message) == current

\* primmaryProcessMessageHandler, case 'routingtable': the worker's table after
\* the message
routingTableAfterMessage(current, message) ==
  IF message.routingTable # None THEN message.routingTable[1] ELSE current

\* primmaryProcessMessageHandler: the worker handles a message of the primary
primmaryProcessMessageHandler(w) ==
  /\ UNCHANGED <<matcherVars, requestVars, serviceVars>>
  /\ workerState[w] \in {"started", "stopped"}
  /\ toWorker[w] # << >>
  /\ toWorker' = [toWorker EXCEPT ![w] = Tail(@)]
  /\ LET message == Head(toWorker[w])
     IN IF message.type = "routingtable"
        THEN /\ workerRoutingTable' =
                  [workerRoutingTable EXCEPT ![w] = routingTableAfterMessage(@, message)]
             /\ UNCHANGED workerState
        ELSE /\ workerState' = [workerState EXCEPT ![w] = "stopped"]
             /\ UNCHANGED workerRoutingTable
  /\ UNCHANGED <<options, primaryState, receivedExitSignals, routingTableStore,
                 workerHandlers, toPrimary, setCalls, lastSet, lastSuccessfulSet, setLog>>

\* the Authorization headers of the requests to the management API
Space == <<" ">>
Bearer == <<"B", "e", "a", "r", "e", "r">>
Basic == <<"B", "a", "s", "i", "c">>
\* apiOptions.key
ApiKey == <<"a", "p", "i">>
OtherKey == <<"x">>
BearerKeyHeader == Bearer \o Space \o ApiKey
AuthorizationHeaders ==
  {None, Some(BearerKeyHeader), Some(Basic \o Space \o ApiKey),
   Some(Bearer \o Space \o OtherKey), Some(ApiKey), Some(Bearer \o Space)}

\* s.split(c)[0]
splitFirst(s, c) == IF IndexOf(s, c) = 0 THEN s ELSE SubSeq(s, 1, IndexOf(s, c) - 1)

\* s.split(c)[1]: None when it is undefined
splitNext(s, c) ==
  IF IndexOf(s, c) = 0 THEN None
  ELSE Some(splitFirst(SubSeq(s, IndexOf(s, c) + 1, Len(s)), c))

\* apiRequestHandler: the request passes the authentication of the endpoints
apiAuthorized(authorization) ==
  /\ authorization # None
  /\ splitNext(authorization[1], " ") # None
  /\ splitNext(authorization[1], " ")[1] # << >>
  /\ splitNext(authorization[1], " ")[1] = ApiKey

\* apiRequestHandler for GET /routes and POST /routes; a POST whose
\* setRoutingTable throws makes the handler throw, and the server, which has no
\* error handler, answers 500
apiRequestHandler(method, authorization, body) ==
  /\ UNCHANGED <<matcherVars, requestVars>>
  /\ apiServing
  /\ IF ~apiAuthorized(authorization)
     THEN /\ apiResponse' = Some([status |-> 401, body |-> None])
          /\ UNCHANGED <<routingTableStore, toWorker, setCalls, lastSet, lastSuccessfulSet,
                         setLog>>
     ELSE IF method = "GET"
     THEN /\ apiResponse' = Some([status |-> 200, body |-> Some(getRoutingTable)])
          /\ UNCHANGED <<routingTableStore, toWorker, setCalls, lastSet, lastSuccessfulSet,
                         setLog>>
     ELSE /\ setRoutingTable(body, ClusterWorkers)
          /\ apiResponse' = Some([status |-> IF setRoutingTableThrows(body) THEN 500 ELSE 200,
                                  body |-> None])
  /\ UNCHANGED <<options, primaryState, receivedExitSignals, workerState,
                 workerHandlers, workerRoutingTable, toPrimary, apiServing, queuesState,
                 stopPc, exitMessage, exitTimers, stopCalls, exitEvents, exitCode>>

\* apiRequestHandler, POST /routes with the API key: setRoutingTable(body)
apiPostRoutes(table) ==
  /\ setCalls < MaxSetCalls
  /\ apiRequestHandler("POST", Some(BearerKeyHeader), table)

\* a request to /routes of the management API, with any Authorization header
apiRequest(method, authorization, body) ==
  /\ setCalls < MaxSetCalls
  /\ apiRequestHandler(method, authorization, body)

\* stopPrimaryProcess, to its await: it clears the discovery timer, stops the
\* management API and awaits stopQueues, which throws at once while
\* postTransactionQueue is undefined; the calls that await the close of the
\* queue at the same time are followed as one
stopPrimaryProcess ==
  /\ apiServing' = FALSE
  /\ stopPc' = IF queuesState = "none" THEN "failed" ELSE "closing"
  /\ UNCHANGED queuesState

\* a handler that takes every exit signal for the first one
gracefulExitHandlerAgain(message) ==
  /\ exitEvents' = exitEvents + 1
  /\ receivedExitSignals' = receivedExitSignals + 1
  /\ exitMessage' = Some(message)
  /\ exitTimers' = exitTimers + 1
  /\ stopCalls' = stopCalls + 1
  /\ stopPrimaryProcess
  /\ UNCHANGED <<apiResponse, exitCode>>

\* gracefulExitHandler: on the first exit signal the exit timer is set and
\* stopPrimaryProcess is called without being awaited; an additional exit
\* signal is only logged
gracefulExitHandler(message) ==
  /\ exitEvents' = exitEvents + 1
  /\ IF receivedExitSignals = 0
     THEN /\ receivedExitSignals' = receivedExitSignals + 1
          /\ exitMessage' = Some(message)
          /\ exitTimers' = exitTimers + 1
          /\ stopCalls' = stopCalls + 1
          /\ stopPrimaryProcess
     ELSE UNCHANGED <<receivedExitSignals, exitMessage, exitTimers, stopCalls, apiServing,
                      stopPc, queuesState>>
  /\ UNCHANGED <<apiResponse, exitCode>>

\* stopPrimaryProcess, from the return of stopQueues: when the queue closed,
\* 'shutdown' is sent to the workers; when closing it failed, stopPrimaryProcess
\* throws (the rejection is one more exit signal, which changes nothing)
stopQueuesSettles(closed) ==
  /\ UNCHANGED <<matcherVars, requestVars>>
  /\ stopPc = "closing"
  /\ primaryState # "exited"
  /\ stopPc' = IF closed THEN "done" ELSE "failed"
  /\ queuesState' = IF closed THEN "closed" ELSE queuesState
  /\ toWorker' = IF closed
                 THEN sendIpcMessageToWorkers(toWorker, ClusterWorkers, ShutdownMessage)
                 ELSE toWorker
  /\ UNCHANGED <<options, primaryState, receivedExitSignals, routingTableStore,
                 workerState, workerHandlers, workerRoutingTable, toPrimary, setCalls,
                 lastSet, lastSuccessfulSet, setLog, apiServing, exitMessage, apiResponse,
                 exitTimers, stopCalls, exitEvents, exitCode>>

\* a discovery cycle: discoverRoutesFromDocker returns [] when the Docker API
\* cannot be reached and when no container yields a route (serviceName is never
\* set); in the second case it calls prefetchDns first, which throws while
\* _routingTable is undefined or holds a url new URL() rejects: the rejection is
\* unhandled and starts the graceful exit
discoveryCycle(dockerReached) ==
  /\ UNCHANGED <<matcherVars, requestVars>>
  /\ options.serviceDiscovery = "docker"
  /\ primaryState = "started"
  /\ receivedExitSignals = 0
  /\ stopPc = "idle"
  /\ setCalls < MaxSetCalls
  /\ IF dockerReached /\ (routingTableStore = None \/ prefetchThrows[getRoutingTable])
     THEN /\ gracefulExitHandler("Unhandled rejection")
          /\ UNCHANGED <<routingTableStore, toWorker, setCalls, lastSet, lastSuccessfulSet,
                         setLog>>
     ELSE /\ setRoutingTable(<< >>, ClusterWorkers)
          /\ UNCHANGED <<receivedExitSignals, serviceVars>>
  /\ UNCHANGED <<options, primaryState, workerState, workerHandlers,
                 workerRoutingTable, toPrimary>>

\* registerSystemEventsHandlers: the exit events that reach the primary from
\* outside, by the exitMessage their handlers give to gracefulExitHandler (the
\* 'exit' event is emitted by process.exit(), see processExit)
ExitEvents ==
  {"BEFORE_EXIT", "SIGINT", "SIGTERM", "SIGUSR1", "SIGUSR2", "Uncaught exception",
   "Unhandled rejection"}

\* an exit event reaches the primary, whose handlers are registered when
\* startPrimaryProcess begins
exitEvent(e) ==
  /\ UNCHANGED <<matcherVars, requestVars>>
  /\ primaryState \in {"started", "failed"}
  /\ exitEvents < MaxExitEvents
  /\ gracefulExitHandler(e)
  /\ UNCHANGED <<options, primaryState, routingTableStore, workerState, workerHandlers,
                 workerRoutingTable, toWorker, toPrimary, setCalls, lastSet,
                 lastSuccessfulSet, setLog>>

\* the first signal (SIGINT, SIGTERM, ...) reaches the primary
exitSignal ==
  /\ receivedExitSignals = 0
  /\ exitEvent("SIGTERM")

\* stop() of the public API: stopPrimaryProcess is called and awaited;
\* receivedExitSignals is not touched and no exit timer is set
stop ==
  /\ UNCHANGED <<matcherVars, requestVars>>
  /\ primaryState \in {"started", "failed"}
  /\ stopPc = "idle"
  /\ stopPrimaryProcess
  /\ UNCHANGED <<exitMessage, apiResponse, exitTimers, stopCalls, exitEvents, exitCode>>
  /\ UNCHANGED <<options, primaryState, receivedExitSignals, routingTableStore, workerState,
                 workerHandlers, workerRoutingTable, toWorker, toPrimary, setCalls, lastSet,
                 lastSuccessfulSet, setLog>>

\* an exit timer that fires only once stopPrimaryProcess has returned
exitTimerFiresAfterStop(timers, pc) == timers > 0 /\ pc = "done"
\* the timer of gracefulExitHandler fires GRACEFUL_EXIT_DELAY after it was
\* set, wherever stopPrimaryProcess is
exitTimerFires(timers, pc) == timers > 0

\* the timer of gracefulExitHandler: process.exitCode = 0, then process.exit(),
\* which emits 'exit' (one more exit event for gracefulExitHandler, which only
\* logs it); the IPC channels of the workers are closed with the primary, and
\* a cluster worker exits when its channel is disconnected
processExit ==
  /\ UNCHANGED <<matcherVars, requestVars>>
  /\ exitTimerFires(exitTimers, stopPc)
  /\ primaryState # "exited"
  /\ exitCode' = Some(0)
  /\ exitEvents' = exitEvents + 1
  /\ UNCHANGED <<exitTimers, stopCalls>>
  /\ primaryState' = "exited"
  /\ apiServing' = FALSE
  /\ workerState' = [w \in WorkerIds |-> IF w \in ClusterWorkers THEN "dead" ELSE workerState[w]]
  /\ workerRoutingTable' = [w \in WorkerIds |-> << >>]
  /\ toWorker' = [w \in WorkerIds |-> << >>]
  /\ toPrimary' = [w \in WorkerIds |-> << >>]
  /\ UNCHANGED <<queuesState, stopPc, exitMessage, apiResponse>>
  /\ UNCHANGED <<options, receivedExitSignals, routingTableStore, workerHandlers, setCalls,
                 lastSet, lastSuccessfulSet, setLog>>

\* a worker dies, and its memory and its channel with it; workerProcessExitHandler
\* (attached to the workers forked at start) forks a new worker, to which no
\* handler is attached, and propagates the routing table again; the death of a
\* worker without the handler is not seen by the primary
workerProcessExitHandler(w) ==
  /\ UNCHANGED <<matcherVars, requestVars, serviceVars>>
  /\ w \in ClusterWorkers
  /\ primaryState # "exited"
  /\ LET restart == workerHandlers[w] /\ receivedExitSignals = 0
         unused == {u \in RestartedWorkers : workerState[u] = "absent"}
         new == IF unused = {} THEN w ELSE Min(unused)
         states == [workerState EXCEPT ![w] = "dead"]
     IN /\ restart => unused # {}
        /\ workerState' = IF restart THEN [states EXCEPT ![new] = "forked"] ELSE states
        /\ toWorker' =
             IF restart
             THEN propagateRoutingTableToWorkers(
                    [toWorker EXCEPT ![w] = << >>],
                    (ClusterWorkers \ {w}) \cup {new}, routingTableStore)
             ELSE [toWorker EXCEPT ![w] = << >>]
        /\ toPrimary' = [toPrimary EXCEPT ![w] = << >>]
        /\ workerRoutingTable' = [workerRoutingTable EXCEPT ![w] = << >>]
  /\ UNCHANGED <<options, primaryState, receivedExitSignals, routingTableStore,
                 workerHandlers, setCalls, lastSet, lastSuccessfulSet, setLog>>


(***************************************************************************)
(* The route matcher and the upstream URL of a forward target, as the      *)
(* request handler of a worker computes them for one request.              *)
(***************************************************************************)
OtherUrl == <<"h", "t", "t", "p", ":", "/", "/", "m", ".", "c", "o", "m">>
Slash == <<"/">>
IndexHtml == <<"i", "n", "d", "e", "x", ".", "h", "t", "m", "l">>
ApiSlashPath == ApiPath \o Slash
ApiV1Path == ApiPath \o <<"/", "v", "1">>
ApixPath == ApiPath \o <<"x">>
ApiApiPath == ApiPath \o ApiPath
V10Path == <<"/", "v", "1", ".", "0">>
Query == <<"?", "q", "=", "1">>

\* valid: a single /api route
ApiOnlyTable ==
  << [hostname |-> Localhost, path |-> ApiPath, targets |-> <<ForwardTarget(OriginUrl)>>] >>
\* valid: a route for every path before an /api route of the same host
ShadowTable ==
  << [hostname |-> Localhost, path |-> << >>, targets |-> <<ForwardTarget(OriginUrl)>>],
     [hostname |-> Localhost, path |-> ApiPath,
      targets |-> <<ForwardTarget(OtherUrl), StaticTarget(StaticDirectory)>>] >>
\* valid: a hostname written with capital letters, then the same in lower case
\* for /api only
MixedCaseTable ==
  << [hostname |-> ExampleComMixed, path |-> << >>, targets |-> <<ForwardTarget(OriginUrl)>>],
     [hostname |-> ExampleCom, path |-> ApiPath, targets |-> <<ForwardTarget(OtherUrl)>>] >>

MatcherTables == {<< >>, ForwardTable, ApiTable, ApiOnlyTable, ShadowTable, MixedCaseTable}
RequestHosts == {Localhost, ExampleCom, ExampleComMixed}
\* the paths of the request targets, as the client wrote them
RequestPaths ==
  {Slash, ApiPath, ApiSlashPath, ApiV1Path, ApixPath, ApiApiPath, V10Path,
   <<"/", ".", ".", "/", "x">>,
   <<"/", "v", "/", ".", ".", "/", ".", ".", "/", "x">>,
   <<"/", "%", "2", "E", ".", "/", "x">>,
   <<"/", "v", "/", ".", "/", "%", "2", "e", "%", "2", "e">>}
RequestQueries == {<< >>, Query}

\* new URL(request.url).hostname: the URL parser lower-cases the host
urlHostname(req) == toLowerCase(req.host)
\* new URL(request.url).pathname as if the URL parser kept the path as written
urlPathnameRaw(req) == req.path
\* new URL(request.url).pathname: the path state of the URL parser reads the
\* path segment by segment; a double-dot segment ('..' with either dot written
\* '%2e', in any case) removes the last segment kept, a single-dot segment is
\* dropped, and either one, when it ends the path, leaves an empty segment
urlPathname(req) ==
  LET DoubleDot == {<<".", ".">>, <<".", "%", "2", "e">>, <<"%", "2", "e", ".">>,
                    <<"%", "2", "e", "%", "2", "e">>}
      SingleDot == {<<".">>, <<"%", "2", "e">>}
      shorten(segs) == IF segs = << >> THEN segs ELSE SubSeq(segs, 1, Len(segs) - 1)
      RECURSIVE pathState(_, _, _)
      pathState(s, segs, buf) ==
        IF s = << >>
        THEN IF toLowerCase(buf) \in DoubleDot THEN Append(shorten(segs), << >>)
             ELSE IF toLowerCase(buf) \in SingleDot THEN Append(segs, << >>)
             ELSE Append(segs, buf)
        ELSE IF Head(s) = "/"
        THEN pathState(Tail(s),
                       IF toLowerCase(buf) \in DoubleDot THEN shorten(segs)
                       ELSE IF toLowerCase(buf) \in SingleDot THEN segs
                       ELSE Append(segs, buf),
                       << >>)
        ELSE pathState(Tail(s), segs, Append(buf, Head(s)))
      RECURSIVE serialize(_)
      serialize(segs) ==
        IF segs = << >> THEN << >> ELSE <<"/">> \o Head(segs) \o serialize(Tail(segs))
  IN serialize(pathState(Tail(req.path), << >>, << >>))
\* new URL(request.url).search
urlSearch(req) == req.search

\* matchRoute returning the last route that matches
RECURSIVE matchRouteLastFrom(_, _, _, _)
matchRouteLastFrom(table, i, hostname, path) ==
  IF i < 1 THEN None
  ELSE IF table[i].hostname = hostname /\ startsWith(path, table[i].path)
       THEN Some(table[i])
       ELSE matchRouteLastFrom(table, i - 1, hostname, path)
matchRouteLast(table, hostname, path) == matchRouteLastFrom(table, Len(table), hostname, path)

\* matchRoute: the loop over routingTable, from its i-th route on
RECURSIVE matchRouteFrom(_, _, _, _)
matchRouteFrom(table, i, hostname, path) ==
  IF i > Len(table) THEN None
  ELSE IF table[i].hostname = hostname /\ startsWith(path, table[i].path)
       THEN Some(table[i])
       ELSE matchRouteFrom(table, i + 1, hostname, path)

matchRoute(table, hostname, path) == matchRouteFrom(table, 1, hostname, path)

\* String.prototype.replaceAll(p, ''), for a non-empty p
RECURSIVE replaceAll(_, _)
replaceAll(s, p) ==
  IF p = << >> \/ Occurrences(s, p) = {} THEN s ELSE replaceAll(replaceFirst(s, p), p)

\* the target URL built with replaceAll in place of replace
buildTargetUrlReplaceAll(r, t, pathname, search) ==
  t.url \o replaceAll(pathname, r.path) \o search

\* requestHandler, forward target: targetPath and targetUrl
buildTargetUrl(r, t, pathname, search) ==
  t.url \o replaceFirst(pathname, r.path) \o search

MatcherInit ==
  /\ routingTable \in MatcherTables
  /\ request \in [host : RequestHosts, path : RequestPaths, search : RequestQueries]
  /\ resolvePc = "start"
  /\ route = None
  /\ target = None
  /\ upstreamUrl = None
  /\ staticFile = None

\* requestHandler: const route = matchRoute(url.hostname, url.pathname)
resolveRoute ==
  /\ UNCHANGED <<clusterVars, requestVars>>
  /\ resolvePc = "start"
  /\ route' = matchRoute(routingTable, urlHostname(request), urlPathname(request))
  /\ resolvePc' = "resolved"
  /\ UNCHANGED <<routingTable, request, target, upstreamUrl, staticFile>>

\* requestHandler: the path of the static file, the directory of the target
\* followed by the path of the URL and, when that path ends with a slash, by
\* the index file of the target
staticFilePath(t, pathname) ==
  t.directory \o pathname
    \o (IF pathname = Slash \/ pathname[Len(pathname)] = "/"
        THEN IF Has(t, "index") /\ t.index # << >> THEN t.index ELSE IndexHtml
        ELSE << >>)

\* requestHandler: the target is drawn at random among the targets of the route;
\* for a forward target the target URL is built, for a static target the path
\* of the file
selectTarget(j) ==
  /\ UNCHANGED <<clusterVars, requestVars>>
  /\ resolvePc = "resolved"
  /\ route # None
  /\ j \in 1..Len(route[1].targets)
  /\ target' = Some(route[1].targets[j])
  /\ upstreamUrl' =
       IF route[1].targets[j].type = "forward"
       THEN Some(buildTargetUrl(route[1], route[1].targets[j],
                                urlPathname(request), urlSearch(request)))
       ELSE None
  /\ staticFile' =
       IF route[1].targets[j].type = "static"
       THEN Some(staticFilePath(route[1].targets[j], urlPathname(request)))
       ELSE None
  /\ resolvePc' = "forwarded"
  /\ UNCHANGED <<routingTable, request, route>>

(***************************************************************************)
(* The request handler of a worker.  Between two awaits a handler runs     *)
(* alone; the handlers of concurrent requests interleave at the awaits:    *)
(* of a pre-processing handler, of fetch, of the file existence check.     *)
(* The job of a request is added to the queue in the step that ends its    *)
(* handler: createPostTransactionJob computes the jobId and issues the     *)
(* command before its own await, and the queue takes the commands of one   *)
(* connection in order.                                                    *)
(***************************************************************************)
Requests == 1..MaxRequests

First == <<"f">>
Second == <<"s">>
Unregistered == <<"u">>
Last == <<"l">>
\* registeredMiddlewares.preProcessing: the keys of the handlers registered
RegisteredPreProcessing == {First, Second}
\* registeredMiddlewares.postProcessing: the keys of the handlers registered
RegisteredPostProcessing == {Last}

\* the user and the password of the routes with basic authentication
ValidUser == <<"a">>
ValidPassword == <<"p">>

\* valid: two pre-processing handlers around a key that is not registered
MiddlewareTable ==
  << [hostname |-> Localhost, path |-> << >>,
      middlewares |-> [preProcessing |-> <<First, Unregistered, Second>>],
      targets |-> <<ForwardTarget(OriginUrl)>>] >>
\* valid: /api with a pre-processing handler, basic authentication and a static target
AuthTable ==
  << [hostname |-> Localhost, path |-> ApiPath,
      middlewares |-> [preProcessing |-> <<First>>],
      authenticationStrategy |->
        [type |-> "basic", username |-> ValidUser, password |-> ValidPassword],
      targets |-> <<StaticTarget(StaticDirectory)>>] >>
\* valid: basic authentication with a realm and a timeout, a pre-processing and a
\* post-processing handler, two forward targets
RealmTable ==
  << [hostname |-> Localhost, path |-> << >>, timeout |-> 3000,
      middlewares |-> [preProcessing |-> <<Second>>, postProcessing |-> <<Last>>],
      authenticationStrategy |->
        [type |-> "basic", username |-> ValidUser, password |-> ValidPassword,
         realm |-> <<"r">>],
      targets |-> <<ForwardTarget(OtherUrl), ForwardTarget(OriginUrl)>>] >>

WorkerTables == {MiddlewareTable, AuthTable}
\* the tables a worker holds while it handles one request: those above, a table
\* with a realm, and the table whose target url new URL() rejects
HandlerTables == WorkerTables \cup {RealmTable, BadPortTable}

\* atob(e) for a string without padding: None when atob throws (a character
\* outside the base64 alphabet, or a length of 1 modulo 4), else the string
\* decoded: the characters of e are six bits each, in the order of the
\* alphabet, the bits after the last whole byte are dropped, and each byte is
\* the character of that code (the codes of the strings of the model)
atob(e) ==
  LET alphabet ==
        <<"A", "B", "C", "D", "E", "F", "G", "H", "I", "J", "K", "L", "M",
          "N", "O", "P", "Q", "R", "S", "T", "U", "V", "W", "X", "Y", "Z",
          "a", "b", "c", "d", "e", "f", "g", "h", "i", "j", "k", "l", "m",
          "n", "o", "p", "q", "r", "s", "t", "u", "v", "w", "x", "y", "z",
          "0", "1", "2", "3", "4", "5", "6", "7", "8", "9", "+", "/">>
      value(c) == (CHOOSE i \in 1..64 : alphabet[i] = c) - 1
      fromCharCode(code) ==
        CASE code = 58 -> ":"
          [] code = 97 -> "a"
          [] code = 112 -> "p"
          [] code = 120 -> "x"
          [] OTHER -> "?"
      RECURSIVE number(_)
      number(t) ==
        IF t = << >> THEN 0
        ELSE 64 * number(SubSeq(t, 1, Len(t) - 1)) + value(t[Len(t)])
      RECURSIVE bytesOf(_, _)
      bytesOf(v, n) ==
        IF n = 0 THEN << >> ELSE Append(bytesOf(v \div 256, n - 1), fromCharCode(v % 256))
  IN IF \/ \E i \in 1..Len(e) : \A k \in 1..64 : alphabet[k] # e[i]
        \/ Len(e) % 4 = 1
     THEN None
     ELSE Some(bytesOf(number(e) \div (2 ^ ((6 * Len(e)) % 8)), (6 * Len(e)) \div 8))

\* the Authorization headers of the requests to the proxy: the credentials of
\* the routes, another password, no credential part, a credential part that is
\* not base64
ValidBasicHeader == Basic \o Space \o <<"Y", "T", "p", "w">>
WrongBasicHeader == Basic \o Space \o <<"Y", "T", "p", "4">>

\* basicAuthenticationMiddleware: "null" when it returns null, "response" when
\* it returns the 401 response, whose realm is the host name of the request
\* URL, "throw" when atob throws
basicAuthenticationMiddleware(authorization, validUser, validPassword, hostname) ==
  IF authorization = None
  THEN [outcome |-> "response", realm |-> hostname]
  ELSE LET encoded == splitNext(authorization[1], " ")
           undefined == <<"u", "n", "d", "e", "f", "i", "n", "e", "d">>
           decoded == atob(IF encoded = None THEN undefined ELSE encoded[1])
       IN IF decoded = None
          THEN [outcome |-> "throw", realm |-> hostname]
          ELSE IF \/ splitFirst(decoded[1], ":") # validUser
                  \/ splitNext(decoded[1], ":") # Some(validPassword)
               THEN [outcome |-> "response", realm |-> hostname]
               ELSE [outcome |-> "null", realm |-> hostname]

\* the Authorization headers of the requests of the model
RequestHeaders ==
  {None, Some(ValidBasicHeader), Some(WrongBasicHeader), Some(Basic),
   Some(Basic \o Space \o <<"!">>)}

\* the delay of the abort timer of a forward dispatch, with MAEGASHIRA_TIMEOUT
\* not set: route.timeout || Number(env.MAEGASHIRA_TIMEOUT) || 5000
DefaultTimeout == 5000
requestTimeout(rt) ==
  IF Has(rt, "timeout") /\ rt.timeout # 0 THEN rt.timeout ELSE DefaultTimeout

\* the cancellation reasons, each a sequence of strings
RouteMatchReason == <<"route_match">>
TimeoutReason == <<"timeout">>
FetchFailedReason == <<"fetch_failed">>
\* updatedState.cancellationReason || `Cancelled by ${middlewareKey}`
cancellationReason(supplied, key) ==
  IF supplied # None /\ supplied[1] # << >> THEN supplied[1]
  ELSE <<"Cancelled by ">> \o key

\* the bodies of the requests, and the body a pre-processing handler returns
\* in place of the one it was given
RequestBody == <<"b">>
ReplacedBody == <<"c">>

\* the requests: the path, the Authorization header, whether the client IP is
\* known, the body, and whether the Authorization header follows, in the
\* sorted list of the headers of the request, a header that a forEach which
\* deletes each header it visits has just deleted (the forEach of Headers
\* reads the list again after each callback, so it does not visit that header)
RequestInputs ==
  [path : {Slash, ApiPath},
   authorization : {None, Some(ValidBasicHeader), Some(WrongBasicHeader)},
   hasIp : BOOLEAN, body : {RequestBody}, authorizationSkipped : {FALSE}]
HandlerInputs ==
  [path : {Slash, ApiPath}, authorization : RequestHeaders,
   hasIp : BOOLEAN, body : {RequestBody}, authorizationSkipped : BOOLEAN]

\* what a pre-processing handler does: it throws, or it returns a state with an
\* action ('next', 'cancel' or another one), with headers that are the plain
\* object it was given ("plain"), or have a forEach method and hold the
\* Authorization header it was given ("same"), the valid one ("rewritten") or
\* none ("removed"), with the body it was given or another one, with or without a cancellationReason
MiddlewareOutcome(action, headers, body, reason) ==
  [action |-> action, headers |-> headers, body |-> body, cancellationReason |-> reason]
MiddlewareOutcomes ==
  {MiddlewareOutcome("next", "same", "same", None),
   MiddlewareOutcome("next", "plain", "same", None),
   MiddlewareOutcome("cancel", "same", "same", None),
   MiddlewareOutcome("other", "same", "same", None),
   MiddlewareOutcome("throw", "same", "same", None)}
HandlerOutcomes ==
  MiddlewareOutcomes \cup
  {MiddlewareOutcome("next", "rewritten", "replaced", None),
   MiddlewareOutcome("next", "removed", "same", None),
   MiddlewareOutcome("cancel", "same", "same", Some(<<"quota">>))}

\* what the upstream does: a response with a status, an error
FetchOutcomes == {"200", "502", "abort", "error"}

NoTransaction ==
  [transaction_id |-> 0, transaction_cancelled |-> FALSE,
   transaction_cancellation_reason |-> None, target_type |-> None,
   response_status |-> None]

\* createPostTransactionJob: postTransactionQueue.add(jobId, transaction,
\* {jobId}); the jobId is the queue name and the time in milliseconds, and a
\* job whose jobId is already in the queue is not added again
createPostTransactionJob(queue, time, data) ==
  IF \E j \in queue : j.jobId = time THEN queue
  ELSE queue \cup {[jobId |-> time, data |-> data]}

\* a loop that ends at the first key without a registered handler
nextRegisteredOrStop(keys, i) ==
  IF i + 1 <= Len(keys) /\ keys[i + 1] \in RegisteredPreProcessing THEN i + 1 ELSE 0

\* the index of the next key of keys after i with a registered handler, 0 if none
nextRegistered(keys, i) ==
  IF \E k \in (i + 1)..Len(keys) : keys[k] \in RegisteredPreProcessing
  THEN Min({k \in (i + 1)..Len(keys) : keys[k] \in RegisteredPreProcessing})
  ELSE 0

preProcessingKeys(r) ==
  IF Has(r, "middlewares") /\ Has(r.middlewares, "preProcessing")
  THEN r.middlewares.preProcessing ELSE << >>

requestFrame ==
  UNCHANGED <<clusterVars, request, resolvePc, route, target, upstreamUrl, staticFile>>

\* a handler that does not mark the transaction of a request without route
routeNotFoundUnmarked(tx) == tx

\* requestHandler: the transaction of a request that matches no route
routeNotFound(tx) ==
  [tx EXCEPT !.transaction_cancelled = TRUE,
             !.transaction_cancellation_reason = Some(RouteMatchReason)]

\* a handler that takes the route of a request in flight from the table the
\* worker holds now, when that table has a route for the path
routeRematched(captured, table, path) ==
  IF matchRoute(table, Localhost, path) = None THEN captured
  ELSE matchRoute(table, Localhost, path)

\* requestHandler: `route`, a constant of the handler, after the resolving step
routeInFlight(captured, table, path) == captured

\* requestHandler, case 'next': the Authorization header of `request` after
\* request.headers.forEach has deleted the headers it visits and
\* updatedState.headers.forEach has set the headers returned
rewriteHeaders(current, returned, skipped) ==
  IF returned # None THEN returned ELSE IF skipped THEN current ELSE None

\* requestHandler, from `transaction.transaction_end` before the return to the
\* end of finally: the status is stamped, the job is created, the client
\* receives the response
finalize(r, tx, status) ==
  /\ transaction' = [transaction EXCEPT ![r] = [tx EXCEPT !.response_status = Some(status)]]
  /\ response' = [response EXCEPT ![r] = status]
  /\ jobs' = createPostTransactionJob(jobs, now,
                                      [tx EXCEPT !.response_status = Some(status)])
  /\ clientStatus' = [clientStatus EXCEPT ![r] = Some(status)]
  /\ reqPc' = [reqPc EXCEPT ![r] = "done"]

\* requestHandler, catch and finally, then errorHandler: the error is thrown
\* again, the job is created, the client receives a 500 response
handleError(r, tx) ==
  /\ transaction' = [transaction EXCEPT ![r] = tx]
  /\ response' = response
  /\ jobs' = createPostTransactionJob(jobs, now, tx)
  /\ clientStatus' = [clientStatus EXCEPT ![r] = Some(500)]
  /\ reqPc' = [reqPc EXCEPT ![r] = "done"]

\* requestHandler, from the authentication to the await of the dispatch, for a
\* request whose response has status `status` so far, whose `request` holds the
\* Authorization header `headers` and whose phases so far are `log`
authenticateAndDispatch(r, input, rt, tg, tx, status, headers, log) ==
  LET basic == Has(rt, "authenticationStrategy") /\ rt.authenticationStrategy.type = "basic"
      read == headers
      auth == IF basic
              THEN basicAuthenticationMiddleware(read, rt.authenticationStrategy.username,
                                                 rt.authenticationStrategy.password, Localhost)
              ELSE [outcome |-> "null", realm |-> Localhost]
      dispatchedTx == [tx EXCEPT !.target_type = Some(tg.type)]
  IN /\ authEvaluated' =
          IF basic
          THEN [authEvaluated EXCEPT ![r] =
                  Some([headers |-> read, strategy |-> rt.authenticationStrategy])]
          ELSE authEvaluated
     /\ CASE auth.outcome = "throw" ->
               /\ handleError(r, tx)
               /\ phases' = [phases EXCEPT ![r] = log \o <<"authenticate">>]
               /\ UNCHANGED <<dispatched, wwwAuthenticate, deadline>>
          [] auth.outcome = "response" ->
               /\ finalize(r, tx, 401)
               /\ wwwAuthenticate' = [wwwAuthenticate EXCEPT ![r] = Some(auth.realm)]
               /\ phases' = [phases EXCEPT ![r] = log \o <<"authenticate">>]
               /\ UNCHANGED <<dispatched, deadline>>
          [] OTHER ->
               /\ phases' = [phases EXCEPT ![r] = log \o <<"authenticate", "dispatch">>]
               /\ UNCHANGED wwwAuthenticate
               /\ IF tg.type = "forward" /\ ~UrlParses(tg.url)
                  THEN /\ handleError(r, dispatchedTx)
                       /\ UNCHANGED <<dispatched, deadline>>
                  ELSE /\ transaction' = [transaction EXCEPT ![r] = dispatchedTx]
                       /\ response' = [response EXCEPT ![r] = status]
                       /\ dispatched' = [dispatched EXCEPT ![r] = tg.type]
                       /\ deadline' =
                            IF tg.type = "forward"
                            THEN [deadline EXCEPT ![r] = Some(requestTimeout(rt))]
                            ELSE deadline
                       /\ reqPc' = [reqPc EXCEPT ![r] =
                                      IF tg.type = "forward" THEN "fetching" ELSE "reading"]
                       /\ UNCHANGED <<jobs, clientStatus>>

\* requestHandler, the pre-processing loop from the key after i: the next
\* registered handler is invoked with the headers of `request` and with
\* request.body, and awaited; or the loop ends
continuePreProcessing(r, input, rt, tg, tx, i, status, headers, log) ==
  LET k == nextRegistered(preProcessingKeys(rt), i)
  IN IF k # 0
     THEN /\ invoked' = [invoked EXCEPT ![r] = Append(@, preProcessingKeys(rt)[k])]
          /\ reqMiddleware' = [reqMiddleware EXCEPT ![r] = k]
          /\ handlerInput' = [handlerInput EXCEPT ![r] =
                                Some([headers |-> headers, body |-> input.body])]
          /\ reqPc' = [reqPc EXCEPT ![r] = "preprocessing"]
          /\ transaction' = [transaction EXCEPT ![r] = tx]
          /\ response' = [response EXCEPT ![r] = status]
          /\ phases' = [phases EXCEPT ![r] = log \o <<"invoke">>]
          /\ UNCHANGED <<dispatched, jobs, clientStatus, wwwAuthenticate, authEvaluated,
                         deadline>>
     ELSE /\ authenticateAndDispatch(r, input, rt, tg, tx, status, headers, log)
          /\ UNCHANGED <<invoked, reqMiddleware, handlerInput>>

\* requestHandler, from its entry to its first await
requestStart(r, input, j) ==
  /\ requestFrame
  /\ reqPc[r] = "new"
  /\ reqInput' = [reqInput EXCEPT ![r] = input]
  /\ LET tx == [NoTransaction EXCEPT !.transaction_id = r]
         found == matchRoute(routingTable, Localhost, input.path)
     IN IF ~input.hasIp
        THEN /\ handleError(r, tx)
             /\ UNCHANGED <<reqRoute, reqTarget, reqMiddleware, invoked, dispatched,
                            reqHeaders, handlerInput, wwwAuthenticate, authEvaluated,
                            deadline, reqTable, phases>>
        ELSE IF found = None
        THEN /\ finalize(r, routeNotFound(tx), 404)
             /\ reqHeaders' = [reqHeaders EXCEPT ![r] = input.authorization]
             /\ reqTable' = [reqTable EXCEPT ![r] = Some(routingTable)]
             /\ phases' = [phases EXCEPT ![r] = <<"resolve">>]
             /\ UNCHANGED <<reqRoute, reqTarget, reqMiddleware, invoked, dispatched,
                            handlerInput, wwwAuthenticate, authEvaluated, deadline>>
        ELSE /\ j \in 1..Len(found[1].targets)
             /\ reqRoute' = [reqRoute EXCEPT ![r] = found]
             /\ reqTarget' = [reqTarget EXCEPT ![r] = Some(found[1].targets[j])]
             /\ reqHeaders' = [reqHeaders EXCEPT ![r] = input.authorization]
             /\ reqTable' = [reqTable EXCEPT ![r] = Some(routingTable)]
             /\ continuePreProcessing(r, input, found[1], found[1].targets[j], tx, 0, 500,
                                      input.authorization, <<"resolve">>)
  /\ UNCHANGED <<routingTable, now, invokedAtCancel, handlerOutput>>

\* requestHandler, from the return of a pre-processing handler to the next await
middlewareReturns(r, outcome) ==
  /\ requestFrame
  /\ reqPc[r] = "preprocessing"
  /\ LET rt == routeInFlight(reqRoute[r], routingTable, reqInput[r].path)[1]
         tg == reqTarget[r][1]
         tx == transaction[r]
         key == invoked[r][Len(invoked[r])]
         given == handlerInput[r][1]
         returned ==
           [headers |-> CASE outcome.headers = "rewritten" -> Some(ValidBasicHeader)
                          [] outcome.headers = "removed" -> None
                          [] OTHER -> given.headers,
            body |-> IF outcome.body = "replaced" THEN ReplacedBody ELSE given.body]
         deleted == rewriteHeaders(reqHeaders[r], None, reqInput[r].authorizationSkipped)
         rewritten == rewriteHeaders(reqHeaders[r], returned.headers,
                                     reqInput[r].authorizationSkipped)
         log == phases[r] \o <<"return">>
     IN CASE outcome.action = "throw" ->
               /\ handleError(r, tx)
               /\ phases' = [phases EXCEPT ![r] = log]
               /\ UNCHANGED <<reqMiddleware, invoked, invokedAtCancel, dispatched,
                              reqHeaders, handlerInput, handlerOutput, wwwAuthenticate,
                              authEvaluated, deadline>>
          [] outcome.action = "next" /\ outcome.headers = "plain" ->
               \* the headers of `request` are deleted, then updatedState.headers.forEach
               \* is not a function
               /\ handleError(r, tx)
               /\ phases' = [phases EXCEPT ![r] = log]
               /\ reqHeaders' = [reqHeaders EXCEPT ![r] = deleted]
               /\ handlerOutput' = [handlerOutput EXCEPT ![r] = Some(returned)]
               /\ UNCHANGED <<reqMiddleware, invoked, invokedAtCancel, dispatched,
                              handlerInput, wwwAuthenticate, authEvaluated, deadline>>
          [] outcome.action = "next" /\ outcome.headers # "plain" ->
               /\ reqHeaders' = [reqHeaders EXCEPT ![r] = rewritten]
               /\ handlerOutput' = [handlerOutput EXCEPT ![r] = Some(returned)]
               /\ continuePreProcessing(r, reqInput[r], rt, tg, tx, reqMiddleware[r],
                                        response[r], rewritten, log)
               /\ UNCHANGED invokedAtCancel
          [] outcome.action = "cancel" ->
               /\ invokedAtCancel' = [invokedAtCancel EXCEPT ![r] = Some(Len(invoked[r]))]
               /\ handlerOutput' = [handlerOutput EXCEPT ![r] = Some(returned)]
               /\ authenticateAndDispatch(r, reqInput[r], rt, tg,
                    [tx EXCEPT !.transaction_cancelled = TRUE,
                               !.transaction_cancellation_reason =
                                  Some(cancellationReason(outcome.cancellationReason, key))],
                    400, reqHeaders[r], log)
               /\ UNCHANGED <<reqMiddleware, invoked, reqHeaders, handlerInput>>
          [] OTHER ->
               /\ handlerOutput' = [handlerOutput EXCEPT ![r] = Some(returned)]
               /\ continuePreProcessing(r, reqInput[r], rt, tg, tx, reqMiddleware[r],
                                        response[r], reqHeaders[r], log)
               /\ UNCHANGED <<invokedAtCancel, reqHeaders>>
  /\ UNCHANGED <<routingTable, now, reqInput, reqRoute, reqTarget, reqTable>>

\* requestHandler, from the return of fetch to the end: fetch returns a
\* response, or throws an AbortError when the timer has aborted it ("abort"),
\* or throws another error
fetchReturns(r, outcome) ==
  /\ requestFrame
  /\ reqPc[r] = "fetching"
  /\ finalize(r,
       IF outcome \in {"abort", "error"}
       THEN [transaction[r] EXCEPT
               !.transaction_cancelled = TRUE,
               !.transaction_cancellation_reason =
                  Some(IF outcome = "abort" THEN TimeoutReason ELSE FetchFailedReason)]
       ELSE transaction[r],
       CASE outcome = "200" -> 200
         [] outcome = "502" -> 502
         [] outcome = "abort" -> 504
         [] OTHER -> 500)
  /\ UNCHANGED <<routingTable, now, reqInput, reqRoute, reqTarget, reqMiddleware,
                 invoked, invokedAtCancel, dispatched, reqHeaders, handlerInput,
                 handlerOutput, wwwAuthenticate, authEvaluated, deadline, reqTable, phases>>

\* requestHandler, from the return of staticFile.exists() to the end
existsReturns(r, fileExists) ==
  /\ requestFrame
  /\ reqPc[r] = "reading"
  /\ finalize(r, transaction[r], IF fileExists THEN 200 ELSE 404)
  /\ UNCHANGED <<routingTable, now, reqInput, reqRoute, reqTarget, reqMiddleware,
                 invoked, invokedAtCancel, dispatched, reqHeaders, handlerInput,
                 handlerOutput, wwwAuthenticate, authEvaluated, deadline, reqTable, phases>>

\* a millisecond passes
tick ==
  /\ requestFrame
  /\ now < MaxClock
  /\ now' = now + 1
  /\ UNCHANGED <<routingTable, reqPc, reqInput, reqRoute, reqTarget, reqMiddleware,
                 transaction, response, invoked, invokedAtCancel, dispatched,
                 clientStatus, jobs, handlerVars>>

\* primmaryProcessMessageHandler in the worker that handles the requests: the
\* table of a 'routingtable' message replaces routingTable
applyRoutingTable(table) ==
  /\ requestFrame
  /\ table # routingTable
  /\ routingTable' = table
  /\ UNCHANGED <<now, reqPc, reqInput, reqRoute, reqTarget, reqMiddleware,
                 transaction, response, invoked, invokedAtCancel, dispatched,
                 clientStatus, jobs, handlerVars>>

(***************************************************************************)
(* Specifications.  Each one runs one part of the program and holds the    *)
(* variables of the other parts at their value before anything runs.       *)
(***************************************************************************)
vars == <<clusterVars, matcherVars, requestVars>>

ClusterIdle ==
  /\ options = [routingTable |-> None, serviceDiscovery |-> "none"]
  /\ primaryState = "init"
  /\ receivedExitSignals = 0
  /\ routingTableStore = None
  /\ workerState = [w \in WorkerIds |-> "absent"]
  /\ workerHandlers = [w \in WorkerIds |-> FALSE]
  /\ workerRoutingTable = [w \in WorkerIds |-> << >>]
  /\ toWorker = [w \in WorkerIds |-> << >>]
  /\ toPrimary = [w \in WorkerIds |-> << >>]
  /\ setCalls = 0
  /\ lastSet = None
  /\ lastSuccessfulSet = None
  /\ setLog = << >>
  /\ apiServing = FALSE
  /\ queuesState = "none"
  /\ stopPc = "idle"
  /\ exitMessage = None
  /\ apiResponse = None
  /\ exitTimers = 0
  /\ stopCalls = 0
  /\ exitEvents = 0
  /\ exitCode = None

MatcherIdle ==
  /\ routingTable = << >>
  /\ request = [host |-> Localhost, path |-> Slash, search |-> << >>]
  /\ resolvePc = "start"
  /\ route = None
  /\ target = None
  /\ upstreamUrl = None
  /\ staticFile = None

RequestIdle ==
  /\ now = 0
  /\ reqPc = [r \in Requests |-> "new"]
  /\ reqInput = [r \in Requests |->
                   [path |-> Slash, authorization |-> None, hasIp |-> TRUE,
                    body |-> RequestBody, authorizationSkipped |-> FALSE]]
  /\ reqRoute = [r \in Requests |-> None]
  /\ reqTarget = [r \in Requests |-> None]
  /\ reqMiddleware = [r \in Requests |-> 0]
  /\ transaction = [r \in Requests |-> NoTransaction]
  /\ response = [r \in Requests |-> 0]
  /\ invoked = [r \in Requests |-> << >>]
  /\ invokedAtCancel = [r \in Requests |-> None]
  /\ dispatched = [r \in Requests |-> "none"]
  /\ clientStatus = [r \in Requests |-> None]
  /\ jobs = {}
  /\ reqHeaders = [r \in Requests |-> None]
  /\ handlerInput = [r \in Requests |-> None]
  /\ handlerOutput = [r \in Requests |-> None]
  /\ wwwAuthenticate = [r \in Requests |-> None]
  /\ authEvaluated = [r \in Requests |-> None]
  /\ deadline = [r \in Requests |-> None]
  /\ reqTable = [r \in Requests |-> None]
  /\ phases = [r \in Requests |-> << >>]

\* the cluster
Init == ClusterInit /\ MatcherIdle /\ RequestIdle
Next ==
  \/ startPrimaryProcess
  \/ \E w \in WorkerIds : startWorkerProcess(w)
  \/ \E w \in WorkerIds : workerProcessMessageHandler(w)
  \/ \E w \in WorkerIds : primmaryProcessMessageHandler(w)
  \/ \E t \in CandidateTables : apiPostRoutes(t)
  \/ \E dockerReached \in BOOLEAN : discoveryCycle(dockerReached)
  \/ exitSignal
  \/ \E closed \in BOOLEAN : stopQueuesSettles(closed)
  \/ processExit
  \/ \E w \in WorkerIds : workerProcessExitHandler(w)
Spec == Init /\ [][Next]_vars

\* the management API of a primary without service discovery
InitApi ==
  /\ Init
  /\ options.serviceDiscovery = "none"
NextApi ==
  \/ startPrimaryProcess
  \/ \E w \in WorkerIds : startWorkerProcess(w)
  \/ \E w \in WorkerIds : workerProcessMessageHandler(w)
  \/ \E w \in WorkerIds : primmaryProcessMessageHandler(w)
  \/ \E authorization \in AuthorizationHeaders : apiRequest("GET", authorization, << >>)
  \/ \E authorization \in AuthorizationHeaders : \E t \in CandidateTables :
       apiRequest("POST", authorization, t)
SpecApi == InitApi /\ [][NextApi]_vars

\* the start of a proxy without service discovery and without updates of the
\* routing table: the workers run and the event loops of the primary and of the
\* workers handle the messages they receive
InitStart ==
  /\ Init
  /\ options.serviceDiscovery = "none"
NextStart ==
  \/ startPrimaryProcess
  \/ \E w \in WorkerIds : startWorkerProcess(w)
  \/ \E w \in WorkerIds : workerProcessMessageHandler(w)
  \/ \E w \in WorkerIds : primmaryProcessMessageHandler(w)
  \/ exitSignal
  \/ \E closed \in BOOLEAN : stopQueuesSettles(closed)
  \/ processExit
  \/ \E w \in WorkerIds : workerProcessExitHandler(w)
\* the shutdown of the primary: the exit events, stop(), the close of the
\* queues, the exit timer (a timer that was set fires) and the deaths of workers
NextExit ==
  \/ startPrimaryProcess
  \/ \E w \in WorkerIds : startWorkerProcess(w)
  \/ \E e \in ExitEvents : exitEvent(e)
  \/ stop
  \/ \E closed \in BOOLEAN : stopQueuesSettles(closed)
  \/ processExit
  \/ \E w \in WorkerIds : workerProcessExitHandler(w)
SpecExit ==
  /\ InitStart
  /\ [][NextExit]_vars
  /\ WF_vars(processExit)

SpecStart ==
  /\ InitStart
  /\ [][NextStart]_vars
  /\ \A w \in WorkerIds : WF_vars(startWorkerProcess(w))
  /\ \A w \in WorkerIds : WF_vars(workerProcessMessageHandler(w))
  /\ \A w \in WorkerIds : WF_vars(primmaryProcessMessageHandler(w))

\* the route matcher
InitMatch == MatcherInit /\ ClusterIdle /\ RequestIdle
NextMatch ==
  \/ resolveRoute
  \/ \E j \in 1..2 : selectTarget(j)
SpecMatch == InitMatch /\ [][NextMatch]_vars

\* the request handler
InitRequest ==
  /\ routingTable \in WorkerTables
  /\ RequestIdle
  /\ ClusterIdle
  /\ request = [host |-> Localhost, path |-> Slash, search |-> << >>]
  /\ resolvePc = "start"
  /\ route = None
  /\ target = None
  /\ upstreamUrl = None
  /\ staticFile = None
NextRequest ==
  \/ \E r \in Requests : \E input \in RequestInputs : \E j \in 1..2 : requestStart(r, input, j)
  \/ \E r \in Requests : \E outcome \in MiddlewareOutcomes : middlewareReturns(r, outcome)
  \/ \E r \in Requests : \E outcome \in FetchOutcomes : fetchReturns(r, outcome)
  \/ \E r \in Requests : \E fileExists \in BOOLEAN : existsReturns(r, fileExists)
  \/ tick
SpecRequest == InitRequest /\ [][NextRequest]_vars

\* the request handler for one request, with updates of the routing table
InitHandler ==
  /\ routingTable \in HandlerTables
  /\ RequestIdle
  /\ ClusterIdle
  /\ request = [host |-> Localhost, path |-> Slash, search |-> << >>]
  /\ resolvePc = "start"
  /\ route = None
  /\ target = None
  /\ upstreamUrl = None
  /\ staticFile = None
\* the handling of one request by a worker whose routing table is updated
\* while the request is in flight
NextHandler ==
  \/ \E input \in HandlerInputs : \E j \in 1..2 : requestStart(Min(Requests), input, j)
  \/ \E outcome \in HandlerOutcomes : middlewareReturns(Min(Requests), outcome)
  \/ \E outcome \in FetchOutcomes : fetchReturns(Min(Requests), outcome)
  \/ \E fileExists \in BOOLEAN : existsReturns(Min(Requests), fileExists)
  \/ \E table \in HandlerTables : applyRoutingTable(table)
SpecHandler == InitHandler /\ [][NextHandler]_vars

(***************************************************************************)
(* Claims about the routing-table store and its propagation.               *)
(***************************************************************************)

\* C1: in every reachable state the routing table held by each worker passed
\* the schema validation of setRoutingTable at the primary.
C1_WorkerTablesValidated ==
  \A w \in WorkerIds : validateRoutingTableSchema(workerRoutingTable[w])

\* C2: a setRoutingTable call with a table that fails the schema validation
\* throws, leaves getRoutingTable() as it was and sends no message to any worker.
C2_InvalidSetRejected ==
  [][(setCalls' = setCalls + 1 /\ ~validateRoutingTableSchema(lastSet'[1].table))
       => /\ lastSet'[1].threw
          /\ getRoutingTable' = getRoutingTable
          /\ toWorker' = toWorker]_vars

\* C2 witness: an invalid table was the last one given to setRoutingTable, which
\* threw, while the store holds a table set before
C2_Witness ==
  /\ lastSet # None
  /\ ~validateRoutingTableSchema(lastSet[1].table)
  /\ lastSet[1].threw
  /\ setCalls = 2
  /\ routingTableStore = Some(ForwardTable)
  /\ \E w \in WorkerIds : toWorker[w] # << >>

\* C3: getRoutingTable() returns the table passed to the most recent
\* setRoutingTable call that succeeded, and the empty sequence when none did.
C3_GetReturnsLastSuccessfulSet ==
  getRoutingTable = IF lastSuccessfulSet = None THEN << >> ELSE lastSuccessfulSet[1]

(***************************************************************************)
(* Claims about the route matcher and the forward rewriting.               *)
(***************************************************************************)
\* the condition of matchRoute for one route
MatchesRoute(r, hostname, path) == r.hostname = hostname /\ startsWith(path, r.path)

MatchingRoutes ==
  {i \in 1..Len(routingTable) :
     MatchesRoute(routingTable[i], urlHostname(request), urlPathname(request))}

\* C6: matchRoute returns the first route in table order that matches the
\* host and the path, and null when no route matches.
C6_FirstMatchWins ==
  resolvePc # "start" =>
    route = IF MatchingRoutes = {} THEN None ELSE Some(routingTable[Min(MatchingRoutes)])

\* C6 witness: two routes of the table match and the first one was returned
C6_Witness ==
  /\ resolvePc = "resolved"
  /\ MatchingRoutes = {1, 2}
  /\ routingTable[1] # routingTable[2]
  /\ route = Some(routingTable[1])

\* a route path matches a request path at a path-segment boundary only
SegmentPrefix(p, q) ==
  \/ q = p
  \/ startsWith(q, p \o Slash)

\* C7: a route with path /api matches /api, /api/ and /api/v1 and does not
\* match /apix: it matches at a path-segment boundary only.
C7_SegmentBoundary ==
  (resolvePc # "start" /\ routingTable = ApiOnlyTable /\ urlHostname(request) = Localhost)
    => (route # None <=> SegmentPrefix(ApiPath, urlPathname(request)))

\* C8: the host is matched whatever its letter case: when a route's hostname
\* equals the request host up to letter case and its path is a prefix of the
\* request path, matchRoute returns a route.
C8_HostCaseInsensitive ==
  (/\ resolvePc # "start"
   /\ \E i \in 1..Len(routingTable) :
        /\ toLowerCase(routingTable[i].hostname) = toLowerCase(request.host)
        /\ startsWith(urlPathname(request), routingTable[i].path))
    => route # None

\* s without its first n characters
DropPrefix(s, n) == SubSeq(s, n + 1, Len(s))

\* C9: the upstream URL of a forward target is the target url, then the
\* request path without the leading route path, then the query string.
C9_ForwardRewriting ==
  upstreamUrl # None =>
    /\ target[1].type = "forward"
    /\ upstreamUrl[1] = target[1].url
                        \o DropPrefix(urlPathname(request), Len(route[1].path))
                        \o urlSearch(request)

\* C9 witness: /api/api?q=1 matched by the /api route is fetched from the
\* target url followed by /api?q=1
C9_Witness ==
  /\ resolvePc = "forwarded"
  /\ route # None
  /\ route[1].path = ApiPath
  /\ request.path = ApiApiPath
  /\ upstreamUrl = Some(OriginUrl \o ApiPath \o Query)

\* C9 witness of the empty route path: /v1.0 is fetched from the target url
\* followed by /v1.0
C9_WitnessEmptyPath ==
  /\ resolvePc = "forwarded"
  /\ route # None
  /\ route[1].path = << >>
  /\ upstreamUrl = Some(OriginUrl \o V10Path)

(***************************************************************************)
(* Claims about the request handler.                                       *)
(***************************************************************************)
\* the jobs of the queue that hold the transaction of request r
JobsOf(r) == {j \in jobs : j.data.transaction_id = r}

\* C4: for every request handled by the worker, concurrent ones included,
\* exactly one record with the transaction id of the request reaches the
\* post-transaction queue.
C4_ExactlyOneRecord ==
  \A r \in Requests : reqPc[r] = "done" => Cardinality(JobsOf(r)) = 1

\* C5: when a pre-processing handler returns 'cancel', no further handler is
\* invoked, the target is not dispatched and the client receives 400.
C5_CancelSkipsDispatch ==
  \A r \in Requests :
    invokedAtCancel[r] # None =>
      /\ Len(invoked[r]) = invokedAtCancel[r][1]
      /\ dispatched[r] = "none"
      /\ reqPc[r] = "done" => clientStatus[r] = Some(400)

\* C10: the record of a request in the queue has the status of the response
\* the client received as its response_status.
C10_RecordHasResponseStatus ==
  \A r \in Requests :
    reqPc[r] = "done" =>
      \A j \in JobsOf(r) : j.data.response_status = clientStatus[r]
(***************************************************************************)
(* Claims about the cluster: worker restarts, the replies of the primary,  *)
(* the order of the updates, the shutdown.                                 *)
(***************************************************************************)
\* the last message of a channel, None when the channel is empty
LastMessage(channel) == IF channel = << >> THEN None ELSE Some(channel[Len(channel)])

\* C11: whenever a worker exits while no shutdown is in progress, the live
\* workers are again as many as were forked at start and the current routing
\* table has been sent again to each of them; this holds for the death of a
\* replacement worker too.
C11_WorkerDeathRestoresCount ==
  [][\A w \in WorkerIds :
       (/\ w \in ClusterWorkers
        /\ workerState'[w] = "dead"
        /\ receivedExitSignals = 0
        /\ primaryState # "exited")
       => /\ Cardinality(ClusterWorkers') = Cardinality(InitialWorkers)
          /\ \A v \in ClusterWorkers' :
               LastMessage(toWorker'[v]) = Some(RoutingTableMessage(Some(getRoutingTable)))]_vars
\* C12: when the primary answers the 'routingtable' request of a worker, the
\* reply carries the table that getRoutingTable() returns at that time.
C12_ReplyCarriesCurrentTable ==
  [][\A w \in WorkerIds :
       (/\ workerState' = workerState
        /\ workerHandlers[w]
        /\ w \in ClusterWorkers
        /\ toPrimary[w] # << >>
        /\ toPrimary'[w] = Tail(toPrimary[w]))
       => LastMessage(toWorker'[w]) = Some(RoutingTableMessage(Some(getRoutingTable)))]_vars
\* the positions of table t in the log of the successful sets
SetPositions(t) == {i \in 1..Len(setLog) : setLog[i] = t}

\* C13: the updates are ordered at the primary and each worker applies them in
\* that order: when table A was set only before table B was, no worker that
\* holds B (a table it received, not the empty one it starts with) replaces B
\* with A.
C13_UpdatesAppliedInOrder ==
  [][\A w \in WorkerIds :
       LET held == workerRoutingTable[w]
           applied == workerRoutingTable'[w]
       IN (/\ w \in ClusterWorkers'
           /\ held # << >>
           /\ applied # held
           /\ SetPositions(applied) # {}
           /\ SetPositions(held) # {})
          => \E i \in SetPositions(applied) : \E j \in SetPositions(held) : j < i]_vars
\* C14: after the first exit signal the primary stops the management API, then
\* closes the queues, then sends 'shutdown' to the workers, and it exits only
\* after that.
C14_ShutdownBroadcastBeforeExit ==
  /\ stopPc = "done" => (~apiServing /\ queuesState = "closed")
  /\ primaryState = "exited" => stopPc = "done"
(***************************************************************************)
(* Claims about the management API.                                        *)
(***************************************************************************)
\* C15: GET /routes and POST /routes are served only to a request whose
\* Authorization header is 'Bearer <key>' with the configured key; any other
\* request is answered 401 with nothing of the table, and the table and the
\* channels to the workers are unchanged.
C15_RoutesNeedBearerKey ==
  [][\A method \in {"GET", "POST"} : \A authorization \in AuthorizationHeaders :
       \A body \in CandidateTables :
         (/\ authorization # Some(BearerKeyHeader)
          /\ apiRequest(method, authorization, body))
         => /\ apiResponse' = Some([status |-> 401, body |-> None])
            /\ getRoutingTable' = getRoutingTable
            /\ toWorker' = toWorker]_vars
\* C16: a POST /routes with the API key whose body fails the schema validation
\* is answered 400, and the routing table of the primary and of every worker
\* is unchanged.
C16_InvalidPostAnswered400 ==
  [][\A body \in CandidateTables :
       (/\ ~validateRoutingTableSchema(body)
        /\ apiRequest("POST", Some(BearerKeyHeader), body))
       => /\ apiResponse'[1].status = 400
          /\ getRoutingTable' = getRoutingTable
          /\ workerRoutingTable' = workerRoutingTable
          /\ toWorker' = toWorker]_vars

\* C17: a POST /routes with the API key and a table T that passes the schema
\* validation is answered 200, the table of the primary becomes T and a
\* 'routingtable' message with T is sent to every live worker.
C17_ValidPostAnswered200 ==
  [][\A body \in CandidateTables :
       (/\ validateRoutingTableSchema(body)
        /\ apiRequest("POST", Some(BearerKeyHeader), body))
       => /\ apiResponse'[1].status = 200
          /\ getRoutingTable' = body
          /\ \A w \in ClusterWorkers :
               toWorker'[w] = Append(toWorker[w], RoutingTableMessage(Some(body)))]_vars
(***************************************************************************)
(* Claims about the service discovery and the DNS prefetch.                *)
(***************************************************************************)
\* C18: a discovery cycle whose poll of the Docker API fails leaves the
\* routing table of the primary and of every worker as it was, and sends
\* nothing to the workers.
C18_FailedPollKeepsTable ==
  [][discoveryCycle(FALSE)
       => /\ getRoutingTable' = getRoutingTable
          /\ workerRoutingTable' = workerRoutingTable
          /\ toWorker' = toWorker]_vars

\* C19: a discovery cycle, whether or not it raises an error, does not start
\* the shutdown of the primary: no exit signal is counted, stopPrimaryProcess
\* is not called and the management API keeps serving.
C19_DiscoveryErrorRecovered ==
  [][\A dockerReached \in BOOLEAN :
       discoveryCycle(dockerReached)
       => /\ receivedExitSignals' = receivedExitSignals
          /\ stopPc' = "idle"
          /\ apiServing']_vars

\* C20: a setRoutingTable call with a table T that passes the schema validation
\* and whose DNS prefetch fails does not throw, leaves T as the table of the
\* primary and has sent T to every live worker.
C20_PrefetchFailureNotFatal ==
  [][\A t \in CandidateTables :
       (/\ setCalls' = setCalls + 1
        /\ lastSet'[1].table = t
        /\ validateRoutingTableSchema(t)
        /\ prefetchDnsThrows(t))
       => /\ ~lastSet'[1].threw
          /\ getRoutingTable' = t
          /\ \A w \in ClusterWorkers' :
               LastMessage(toWorker'[w]) = Some(RoutingTableMessage(Some(t)))]_vars
(***************************************************************************)
(* Claims about the start of the proxy.                                    *)
(***************************************************************************)
\* C21: when startPrimaryProcess has failed on an initial routing table that
\* does not pass the schema validation, no worker was forked: no worker is
\* running, whether it has started to serve requests or not.
C21_InvalidInitialTableFatal ==
  (/\ primaryState = "failed"
   /\ options.routingTable # None
   /\ ~validateRoutingTableSchema(options.routingTable[1]))
  => \A w \in WorkerIds : workerState[w] \in {"absent", "dead"}
\* C22: after startPrimaryProcess has returned with a valid initial routing
\* table T, every worker forked eventually holds T, unless the worker dies first, and
\* with T the hostname and the path of every route of T match a route.
C22_WorkersReceiveInitialTable ==
  \A w \in WorkerIds : \A t \in {u \in CandidateTables : validateRoutingTableSchema(u)} :
    (/\ primaryState = "started"
     /\ options.routingTable = Some(t)
     /\ workerState[w] = "forked")
    ~> \/ workerState[w] = "dead"
       \/ /\ workerRoutingTable[w] = t
          /\ \A i \in 1..Len(t) :
               matchRoute(workerRoutingTable[w], t[i].hostname, t[i].path) # None

\* C22 witness: both workers forked by startPrimaryProcess run with the initial
\* table, and so does the worker forked after the death of one of them
C22_Witness ==
  /\ primaryState = "started"
  /\ options.routingTable = Some(ForwardTable)
  /\ \E w \in InitialWorkers : workerState[w] = "dead"
  /\ \E w \in InitialWorkers :
       workerState[w] = "started" /\ workerRoutingTable[w] = ForwardTable
  /\ \E w \in RestartedWorkers :
       workerState[w] = "started" /\ workerRoutingTable[w] = ForwardTable
(***************************************************************************)
(* Claims about the phases of the request handler.                         *)
(***************************************************************************)
\* the elements of a sequence
Range(seq) == {seq[i] : i \in 1..Len(seq)}

\* C23: a forward dispatch that ends without a response of the upstream marks
\* the transaction cancelled; when fetch was aborted by the timer the client
\* receives 504 and the reason is 'timeout', in every other case the client
\* receives 500 and the reason is 'fetch_failed'; the timer is set to the
\* timeout of the route, or to 5000 ms when the route has none.
C23_ForwardFailureClassified ==
  [][\A r \in Requests :
       /\ (/\ reqPc[r] # "done"
           /\ reqPc'[r] = "done"
           /\ "dispatch" \in Range(phases'[r])
           /\ reqTarget'[r][1].type = "forward"
           /\ ~fetchReturns(r, "200")
           /\ ~fetchReturns(r, "502"))
          => /\ transaction'[r].transaction_cancelled
             /\ IF fetchReturns(r, "abort")
                THEN /\ clientStatus'[r] = Some(504)
                     /\ transaction'[r].transaction_cancellation_reason = Some(TimeoutReason)
                ELSE /\ clientStatus'[r] = Some(500)
                     /\ transaction'[r].transaction_cancellation_reason =
                          Some(FetchFailedReason)
       /\ (deadline[r] = None /\ deadline'[r] # None)
          => deadline'[r] = Some(IF Has(reqRoute'[r][1], "timeout")
                                 THEN reqRoute'[r][1].timeout ELSE 5000)]_vars

\* the header carries the user and the password of the strategy
CarriesCredentials(header, strategy) ==
  /\ strategy.username = ValidUser
  /\ strategy.password = ValidPassword
  /\ header = Some(ValidBasicHeader)

\* C24: when the basic authentication of a route is evaluated with a header
\* that does not carry the user and the password of the route, the client
\* receives 401 with a WWW-Authenticate header and the target is not
\* dispatched; with a header that carries them there is no authentication
\* response and the request reaches the dispatch.
C24_BasicAuthenticationAnswers ==
  \A r \in Requests :
    authEvaluated[r] # None =>
      IF CarriesCredentials(authEvaluated[r][1].headers, authEvaluated[r][1].strategy)
      THEN /\ wwwAuthenticate[r] = None
           /\ "dispatch" \in Range(phases[r])
      ELSE /\ reqPc[r] = "done"
           /\ clientStatus[r] = Some(401)
           /\ wwwAuthenticate[r] # None
           /\ dispatched[r] = "none"
           /\ "dispatch" \notin Range(phases[r])

\* C25: the realm of the WWW-Authenticate header of a basic-authentication
\* 401 is the realm of the strategy of the route when it has one, else the
\* host name of the request.
C25_RealmOfTheRoute ==
  \A r \in Requests :
    wwwAuthenticate[r] # None =>
      wwwAuthenticate[r] =
        Some(IF Has(authEvaluated[r][1].strategy, "realm")
             THEN authEvaluated[r][1].strategy.realm ELSE Localhost)

\* the rank of a phase in the order resolve, pre-process, authenticate, dispatch
PhaseRank(phase) ==
  CASE phase = "resolve" -> 1
    [] phase \in {"invoke", "return"} -> 2
    [] phase = "authenticate" -> 3
    [] OTHER -> 4

\* C26: the phases of a request follow the order resolve, pre-process,
\* authenticate, dispatch; when the authentication starts every handler invoked
\* has returned and none is invoked later; the basic authentication reads the
\* headers of the last state a handler returned, or those the client sent when
\* no handler returned; the dispatch starts only after an authentication that
\* gave no response.
C26_PhasesInOrder ==
  \A r \in Requests :
    LET log == phases[r]
    IN /\ log # << >> => log[1] = "resolve"
       /\ \A i, k \in 1..Len(log) : i < k => PhaseRank(log[i]) <= PhaseRank(log[k])
       /\ \A i \in 1..Len(log) :
            log[i] = "authenticate" =>
              Cardinality({k \in 1..i : log[k] = "invoke"})
                = Cardinality({k \in 1..i : log[k] = "return"})
       /\ \A i \in 1..Len(log) :
            log[i] = "dispatch" => i > 1 /\ log[i - 1] = "authenticate"
       /\ dispatched[r] # "none" => "dispatch" \in Range(log)
       /\ "dispatch" \in Range(log) =>
            /\ wwwAuthenticate[r] = None
            /\ authEvaluated[r] # None =>
                 CarriesCredentials(authEvaluated[r][1].headers, authEvaluated[r][1].strategy)
       /\ authEvaluated[r] # None =>
            /\ "authenticate" \in Range(log)
            /\ authEvaluated[r][1].headers =
                 IF handlerOutput[r] # None THEN handlerOutput[r][1].headers
                 ELSE reqInput[r].authorization

\* the keys of keys that have a registered handler, in the order of keys
RECURSIVE RegisteredKeys(_)
RegisteredKeys(keys) ==
  IF keys = << >> THEN << >>
  ELSE (IF Head(keys) \in RegisteredPreProcessing THEN <<Head(keys)>> ELSE << >>)
       \o RegisteredKeys(Tail(keys))

\* C27: the handlers invoked are the registered handlers of the route in the
\* order of its list, and a handler invoked after another one has returned is
\* given the headers and the body of the state the other one returned.
C27_StatePassedAlong ==
  [][\A r \in Requests :
       (/\ Len(invoked'[r]) = Len(invoked[r]) + 1
        /\ handlerOutput'[r] # None)
       => /\ \E n \in 0..Len(RegisteredKeys(preProcessingKeys(reqRoute'[r][1]))) :
               invoked'[r] = SubSeq(RegisteredKeys(preProcessingKeys(reqRoute'[r][1])), 1, n)
          /\ handlerInput'[r] = handlerOutput'[r]]_vars

\* C28: when the handler with key K returns 'cancel', the cancellation reason
\* of the transaction is the cancellationReason it returned when it returned
\* one, else 'middleware_cancelled:K'.
C28_MiddlewareCancellationReason ==
  [][\A r \in Requests : \A outcome \in HandlerOutcomes :
       (outcome.action = "cancel" /\ middlewareReturns(r, outcome))
       => transaction'[r].transaction_cancellation_reason =
            Some(IF outcome.cancellationReason # None THEN outcome.cancellationReason[1]
                 ELSE <<"middleware_cancelled:">> \o invoked[r][Len(invoked[r])])]_vars

\* C29: a request for which matchRoute has returned no route has received
\* 404, its transaction is cancelled with the reason 'route_match', and no
\* pre-processing handler, no authentication and no dispatch ran for it.
C29_RouteMissAnswered404 ==
  \A r \in Requests :
    (/\ reqTable[r] # None
     /\ matchRoute(reqTable[r][1], Localhost, reqInput[r].path) = None)
    => /\ reqPc[r] = "done"
       /\ clientStatus[r] = Some(404)
       /\ transaction[r].transaction_cancelled
       /\ transaction[r].transaction_cancellation_reason = Some(RouteMatchReason)
       /\ invoked[r] = << >>
       /\ authEvaluated[r] = None
       /\ dispatched[r] = "none"
       /\ phases[r] = <<"resolve">>

\* C29 witness: a request for / was resolved while the worker held the table
\* whose only route is /api
C29_Witness ==
  \E r \in Requests :
    /\ reqTable[r] = Some(AuthTable)
    /\ reqInput[r].path = Slash
    /\ reqPc[r] = "done"

\* C30: a request that found a route runs against the route matchRoute
\* returned for the table the worker held at the resolving step, whatever the
\* table it holds since: the target is one of its targets, the handlers
\* invoked are its handlers, the authentication evaluated is its strategy, the
\* timer has its timeout.
C30_RequestKeepsItsRoute ==
  \A r \in Requests :
    reqRoute[r] # None =>
      LET snapshot == matchRoute(reqTable[r][1], Localhost, reqInput[r].path)
          keys == RegisteredKeys(preProcessingKeys(snapshot[1]))
      IN /\ snapshot = reqRoute[r]
         /\ reqTarget[r][1] \in Range(snapshot[1].targets)
         /\ \E n \in 0..Len(keys) : invoked[r] = SubSeq(keys, 1, n)
         /\ "authenticate" \in Range(phases[r]) =>
              /\ invokedAtCancel[r] = None => invoked[r] = keys
              /\ authEvaluated[r] =
                   IF /\ Has(snapshot[1], "authenticationStrategy")
                      /\ snapshot[1].authenticationStrategy.type = "basic"
                   THEN Some([headers |-> authEvaluated[r][1].headers,
                              strategy |-> snapshot[1].authenticationStrategy])
                   ELSE None
         /\ deadline[r] # None => deadline[r] = Some(requestTimeout(snapshot[1]))

\* C30 witness: a request is awaiting its upstream after a handler returned,
\* and the table of the worker is no longer the one it was resolved against
C30_Witness ==
  \E r \in Requests :
    /\ reqPc[r] = "fetching"
    /\ invoked[r] # << >>
    /\ reqTable[r] = Some(MiddlewareTable)
    /\ routingTable = RealmTable
(***************************************************************************)
(* Claims about repeated updates, the convergence of the workers and the   *)
(* failures of setRoutingTable.                                            *)
(***************************************************************************)

\* C31: a setRoutingTable(T) call that follows a setRoutingTable(T) call with
\* the same valid table T leaves _routingTable at T and sends exactly one
\* 'routingtable' message holding T to each worker, as the first call did (two
\* propagations for the two calls); a worker that handles such a message
\* holds T afterwards, whether it held T before or not.
C31_SetTwiceIsIdempotent ==
  [][\A t \in CandidateTables :
       /\ (/\ schemaValid[t]
           /\ setCalls' = setCalls + 1
           /\ lastSet # None
           /\ lastSet[1].table = t
           /\ lastSet'[1].table = t)
          => /\ routingTableStore = Some(t)
             /\ routingTableStore' = Some(t)
             /\ toWorker' = propagateRoutingTableToWorkers(toWorker, ClusterWorkers, Some(t))
             /\ UNCHANGED <<workerState, workerRoutingTable>>
       /\ \A w \in WorkerIds :
            (/\ workerState[w] = "started"
             /\ workerState'[w] = "started"
             /\ toWorker[w] # << >>
             /\ toWorker'[w] = Tail(toWorker[w])
             /\ Head(toWorker[w]) = RoutingTableMessage(Some(t)))
            => workerRoutingTable'[w] = t]_vars

\* C31 witness: setRoutingTable returned twice for the same table, and a
\* worker has handled every message sent to it and holds that table
C31_Witness ==
  /\ setLog = <<ForwardTable, ForwardTable>>
  /\ routingTableStore = Some(ForwardTable)
  /\ \E w \in WorkerIds :
       /\ workerState[w] = "started"
       /\ toWorker[w] = << >>
       /\ toPrimary[w] = << >>
       /\ workerRoutingTable[w] = ForwardTable
\* C35: when the primary, with no shutdown begun, has handled every request of
\* its workers and every message sent to a worker has been handled, the table
\* of every live worker
\* that has started is the table getRoutingTable() returns in the primary.
C35_WorkersConverge ==
  (/\ primaryState = "started"
   /\ receivedExitSignals = 0
   /\ \A w \in WorkerIds : toPrimary[w] = << >> /\ toWorker[w] = << >>)
  => \A w \in ClusterWorkers :
       workerState[w] = "started" => workerRoutingTable[w] = getRoutingTable

\* C36: a call of setRoutingTable that throws, whatever made it throw (the
\* validation, the propagation to the workers or the DNS prefetch), leaves
\* the table that getRoutingTable() returns as it was before the call.
C36_FailedSetKeepsTable ==
  [][(setCalls' = setCalls + 1 /\ lastSet'[1].threw)
       => getRoutingTable' = getRoutingTable]_vars

(***************************************************************************)
(* Claims about the post-processing, the static targets, the unregistered  *)
(* middleware keys and the transaction records.                            *)
(***************************************************************************)

\* C32: when the handler of a request has ended after the dispatch of a target
\* of a route that lists post-processing middlewares, each registered
\* post-processing handler of the route has been invoked, after the dispatch.
C32_PostProcessingRuns ==
  \A r \in Requests :
    (/\ reqPc[r] = "done"
     /\ dispatched[r] # "none"
     /\ Has(reqRoute[r][1], "middlewares")
     /\ Has(reqRoute[r][1].middlewares, "postProcessing"))
    => \A k \in Range(reqRoute[r][1].middlewares.postProcessing) \cap RegisteredPostProcessing :
         /\ k \in Range(invoked[r])
         /\ "post-process" \in Range(phases[r])
C34_UnregisteredKeySkipped ==
  \A r \in Requests :
    reqRoute[r] # None =>
      LET keys == RegisteredKeys(preProcessingKeys(reqRoute[r][1]))
      IN /\ \E n \in 0..Len(keys) : invoked[r] = SubSeq(keys, 1, n)
         /\ (/\ \/ reqPc[r] \in {"fetching", "reading"}
                 \/ (reqPc[r] = "done" /\ transaction[r].response_status # None)
              /\ ~transaction[r].transaction_cancelled)
            => /\ invoked[r] = keys
               /\ "authenticate" \in Range(phases[r])
               /\ (dispatched[r] # "none" \/ wwwAuthenticate[r] # None)

\* a request of the route that lists the key without handler between two
\* registered ones has had both handlers invoked and its target answer 200
C34_Witness ==
  \E r \in Requests :
    /\ reqRoute[r] # None
    /\ preProcessingKeys(reqRoute[r][1]) = <<First, Unregistered, Second>>
    /\ invoked[r] = <<First, Second>>
    /\ reqPc[r] = "done"
    /\ dispatched[r] = "forward"
    /\ clientStatus[r] = Some(200)
\* C40: in every transaction record given to the queue, transaction_cancelled
\* is true exactly when a cancellation reason is recorded, and the response
\* status of a cancelled transaction is not in 200..299.
C40_CancelledRecordsConsistent ==
  \A j \in jobs :
    /\ j.data.transaction_cancelled <=> j.data.transaction_cancellation_reason # None
    /\ j.data.transaction_cancelled
         => \/ j.data.response_status = None
            \/ j.data.response_status[1] \notin 200..299

(***************************************************************************)
(* Claims about the shutdown of the primary.                               *)
(***************************************************************************)

\* C37: once the shutdown has begun, by an exit signal or by stop(), the death
\* of a worker is never followed by the fork of a replacement: in a step in
\* which a live worker dies while the primary runs, no worker is forked.
C37_NoForkDuringShutdown ==
  [][(/\ (receivedExitSignals > 0 \/ stopPc # "idle")
      /\ primaryState' # "exited"
      /\ \E w \in ClusterWorkers : workerState'[w] = "dead")
       => \A u \in WorkerIds : workerState'[u] = "forked" => workerState[u] = "forked"]_vars

\* C38: whatever exit events reach the primary, the teardown is started at
\* most once: receivedExitSignals never exceeds 1, and gracefulExitHandler
\* has set as many exit timers and called stopPrimaryProcess as many times as
\* receivedExitSignals counts, that is once, for the first event only.
C38_TeardownStartedOnce ==
  /\ receivedExitSignals \in {0, 1}
  /\ exitTimers = receivedExitSignals
  /\ stopCalls = receivedExitSignals
  /\ exitEvents > 0 => receivedExitSignals = 1

\* three exit events have reached the primary, SIGINT first, and the teardown
\* was started once
C38_Witness ==
  /\ exitEvents = MaxExitEvents
  /\ primaryState = "started"
  /\ exitMessage = Some("SIGINT")
  /\ receivedExitSignals = 1
  /\ exitTimers = 1
  /\ stopCalls = 1

\* C39: after the first exit signal the primary eventually exits, with exit
\* code 0, whether stopPrimaryProcess returns, throws or never comes back
\* from stopQueues.
C39_ExitsAfterGraceDelay ==
  (receivedExitSignals > 0) ~> (primaryState = "exited" /\ exitCode = Some(0))

\* the primary has exited with code 0 while stopPrimaryProcess was still
\* awaiting stopQueues, and, in another run, after it had thrown
C39_Witness ==
  /\ primaryState = "exited"
  /\ exitCode = Some(0)
  /\ stopPc \in {"closing", "failed"}
  /\ receivedExitSignals = 1
====
